---------------------------- MODULE Spec2Model ----------------------------
(***************************************************************************)
(* Model of the LiDAR capture backend: the LRAW decoder                    *)
(* (RawDataProcessor.parse_lraw), the two orchestrators that call it       *)
(* (RawDataProcessor.process, SimplePipeline.process), the per-frame AI    *)
(* enhancement loop and the shared depth-estimation service.               *)
(*                                                                         *)
(* The bytes of the capture file are an input.  The model draws the bytes  *)
(* of each record when the decoder reads them: the declared counts, the    *)
(* face indices, and how many bytes the file still holds ("avail").  A     *)
(* file.read(n) returns min(n, avail) bytes and never raises.              *)
(***************************************************************************)
EXTENDS Integers, Sequences, FiniteSets, TLC

(* ------------------------------ bounds -------------------------------- *)
MaxMesh == 2
MaxTex == 1
MaxDepth == 1
MaxVerts == 1
MaxFaces == 1
MaxImage == 1
MaxDim == 1
MaxPoints == 1
MaxEnhFrames == 3
NumThreads == 2
MaxCalls == 3
MaxSockets == 3
MaxUploads == 2
MaxFileSize == 2
MaxRequests == 2
MaxReports == 1
MaxWidth == 3
MaxExtractPoints == 2
\* a declared vertex count / image length no real file can back (corrupt field)
CorruptCount == 50000000

(* ------------------------- program constants -------------------------- *)
HEADER_SIZE == 32
COUNTS_END == 20
UUID_SIZE == 16
TRANSFORM_SIZE == 64
INTRINSICS_SIZE == 36
TIMESTAMP_SIZE == 8
U32_SIZE == 4
VEC3_STRIDE == 12
F32_SIZE == 4
\* the ceiling above which a declared count is implausible (the decoder has none)
SanityCeiling == 1000000

LRAW_MAGIC == <<76, 82, 65, 87>>

\* Python's None, for the record-valued variables and for the name-valued ones
None == [none |-> TRUE]
NoName == "None"

Min(a, b) == IF a < b THEN a ELSE b

\* a uint32 as two 16-bit halves, so that numpy's wrapping addition is exact
Half == 65536
U32(n) == [hi |-> (n \div Half) % Half, lo |-> n % Half]
U32Max == [hi |-> Half - 1, lo |-> Half - 1]

VARIABLES
  caller,          \* which orchestrator runs: "raw" or "simple"
  pc,              \* position in the orchestrator / decoder
  hdrMagic,        \* header[0:4] as read
  flags,           \* [cls, conf]: has-classifications, has-confidence-maps
  counts,          \* [mesh, tex, depth] of the header
  countsRead,      \* the header counts have been unpacked
  pos,             \* file offset after the last complete read of a record
  eof,             \* a read came back shorter than requested
  mesh_anchors, texture_frames, depth_frames,   \* parse_lraw's local lists
  parseStatus,     \* "running" | "ok" | "error"
  parseError,      \* the exception raised by parse_lraw, or None
  largestCount,    \* the largest declared count a read was sized by
  lraw_data,       \* the LRAWData returned to the orchestrator, or None
  artifacts,       \* files written and directories created for the scan
  outcome,         \* what the orchestrator returned / raised
  mesh,            \* the merged mesh written by _reconstruct_mesh, or None
  enh_i,           \* index of the texture frame the enhancement loop is at
  fusion_results,  \* _enhance_depth_with_ai's list of per-frame statistics
  all_enhanced_points,   \* its list of per-frame point arrays
  frameLog,        \* what happened to each texture frame visited so far
  enhanced,        \* what _enhance_depth_with_ai returned: a dict or None
  pc_path,         \* SimplePipeline.process's pc_path, or None
  depth_anything_instance,   \* the module global: 0 for None, else a service
  services,        \* every DepthAnythingService object constructed so far
  thr,             \* each caller thread: position, call, service held, result
  depsOk,          \* torch, transformers and PIL can be imported
  notifyFailed,    \* a progress callback has raised during this run
  cancelAt,        \* frame index at which cancellation was requested, or -1
  fusion,          \* a call of the depth calibration/fusion: inputs and results
  extraction,       \* a call of PointCloudExtractor: inputs and results
  progress,        \* the progress fractions one processing run has delivered
  connections,     \* WebSocketManager.connections: scan id -> list of sockets
  sockets,         \* the connection state of every websocket object
  bcast,           \* the WebSocketManager.broadcast coroutine in progress
  upload_sessions, \* _upload_sessions, in insertion order
  upload_count,    \* how many upload ids have been generated
  scan_files,      \* scan id -> the chunks of the assembled upload written
  reply,           \* the response of the last upload request
  scans,           \* scan id -> status in the stored scan metadata
  handlers,        \* the start_processing requests in flight
  tasks            \* the background tasks start_processing has scheduled

codecVars == <<caller, pc, hdrMagic, flags, counts, countsRead, pos, eof,
               mesh_anchors, texture_frames, depth_frames, parseStatus,
               parseError, largestCount, lraw_data, artifacts, outcome>>

enhVars == <<mesh, enh_i, fusion_results, all_enhanced_points, frameLog, enhanced>>

envVars == <<notifyFailed, cancelAt>>

pipelineVars == <<codecVars, enhVars, pc_path, envVars>>

svcVars == <<depth_anything_instance, services, thr, depsOk>>

calcVars == <<fusion, extraction>>

\* the state of the API, the worker and the websocket manager
wsVars == <<connections, sockets, bcast>>

uploadVars == <<upload_sessions, upload_count, scan_files, reply>>

scanVars == <<scans, handlers, tasks>>

apiVars == <<progress, wsVars, uploadVars, scanVars>>

vars == <<pipelineVars, svcVars, calcVars, apiVars>>

\* the directories the orchestrators create; every other member of
\* `artifacts` is a file
ScanDir == "scan_id/"
Directories == {ScanDir, "textures/", "depth/", "enhanced_depth/"}

(* ------------------------------ inputs -------------------------------- *)
\* first bytes of the file: the literal, near misses, and short prefixes
MagicSamples ==
  { LRAW_MAGIC, <<76, 82, 65, 88>>, <<108, 82, 65, 87>>,
    <<76, 82, 65>>, <<76>>, <<>> }

VertexCounts == (0..MaxVerts) \cup {CorruptCount}
FaceCounts == 0..MaxFaces
ImageLengths == (0..MaxImage) \cup {CorruptCount}
\* face index triples as stored in the file: one in range for a one-vertex
\* anchor, one with an index out of range and an index near 2^32
FaceSamples == { <<U32(0), U32(0), U32(0)>>, <<U32Max, U32(0), U32(1)>> }

(* ------------------------------ decoder ------------------------------- *)
\* np.frombuffer(data, dtype=<4 bytes>).reshape(-1, 3) on `got` bytes:
\* rows decoded, or -1 when numpy raises ValueError
Rows3(got) ==
  IF got % F32_SIZE # 0 THEN -1
  ELSE IF (got \div F32_SIZE) % 3 # 0 THEN -1
  ELSE got \div VEC3_STRIDE

\* bytes _parse_mesh_anchor consumes from a complete record
MeshLen(V, F, hc, cls) ==
  UUID_SIZE + TRANSFORM_SIZE + U32_SIZE + U32_SIZE + 1
  + V * VEC3_STRIDE + V * VEC3_STRIDE + F * VEC3_STRIDE
  + (IF hc # 0 /\ cls THEN V ELSE 0)


Max(a, b) == IF a > b THEN a ELSE b

Failure(kind, sizedBy) == [ok |-> FALSE, err |-> kind, sized |-> sizedBy]

\* a faulty decoder that unpacks the counts before it tests the magic
ParseHeaderResult_CountsFirst(magic, got) ==
  IF got < COUNTS_END THEN Failure("StructError", 0)
  ELSE IF magic # LRAW_MAGIC THEN Failure("InvalidMagic", 0)
  ELSE [ok |-> TRUE, err |-> NoName, sized |-> 0]

\* header = f.read(32); the magic test; the five struct.unpack calls.
\* `magic` is header[0:4], `got` is len(header).
ParseHeaderResult(magic, got) ==
  IF magic # LRAW_MAGIC THEN Failure("InvalidMagic", 0)
  ELSE IF got < COUNTS_END THEN Failure("StructError", 0)
  ELSE [ok |-> TRUE, err |-> NoName, sized |-> 0]

\* _parse_mesh_anchor on a record of which `avail` bytes are left in the file.
\* V, F, hc are the values stored in the count fields, faceData the stored
\* index triples, cls the header's has-classifications flag.
ParseMeshAnchorResult(avail, V, F, hc, faceData, cls) ==
  LET gUuid == Min(UUID_SIZE, avail)
      r1 == avail - gUuid
      gTr == Min(TRANSFORM_SIZE, r1)
      r2 == r1 - gTr
      gVc == Min(U32_SIZE, r2)
      r3 == r2 - gVc
      gFc == Min(U32_SIZE, r3)
      r4 == r3 - gFc
      gHc == Min(1, r4)
      r5 == r4 - gHc
      gV == Min(V * VEC3_STRIDE, r5)
      r6 == r5 - gV
      gN == Min(V * VEC3_STRIDE, r6)
      r7 == r6 - gN
      gF == Min(F * VEC3_STRIDE, r7)
      r8 == r7 - gF
      wantCls == hc # 0 /\ cls
      gC == IF wantCls THEN Min(V, r8) ELSE 0
  IN
  IF gTr # TRANSFORM_SIZE THEN Failure("ValueError", 0)
  ELSE IF gVc # U32_SIZE \/ gFc # U32_SIZE \/ gHc # 1 THEN Failure("StructError", 0)
  ELSE IF Rows3(gV) < 0 \/ Rows3(gN) < 0 THEN Failure("ValueError", V)
  ELSE IF Rows3(gF) < 0 THEN Failure("ValueError", Max(V, F))
  ELSE [ok |-> TRUE, err |-> NoName, sized |-> Max(V, F),
        used |-> gUuid + gTr + gVc + gFc + gHc + gV + gN + gF + gC,
        rec |-> [declV |-> V, declF |-> F, has_class |-> hc,
                 nverts |-> Rows3(gV), nnormals |-> Rows3(gN),
                 faces |-> SubSeq(faceData, 1, Rows3(gF)),
                 nclass |-> IF wantCls THEN gC ELSE -1]]

\* bytes of a texture record before its image payload
TEXTURE_FIXED == UUID_SIZE + TIMESTAMP_SIZE + TRANSFORM_SIZE + INTRINSICS_SIZE
                 + U32_SIZE + U32_SIZE + U32_SIZE

TextureLen(L) == TEXTURE_FIXED + L

\* _parse_texture_frame; L is the stored image length
ParseTextureFrameResult(avail, L) ==
  LET gUuid == Min(UUID_SIZE, avail)
      r1 == avail - gUuid
      gTs == Min(TIMESTAMP_SIZE, r1)
      r2 == r1 - gTs
      gTr == Min(TRANSFORM_SIZE, r2)
      r3 == r2 - gTr
      gIn == Min(INTRINSICS_SIZE, r3)
      r4 == r3 - gIn
      gWHL == Min(3 * U32_SIZE, r4)
      r5 == r4 - gWHL
      gImg == Min(L, r5)
  IN
  IF gTs # TIMESTAMP_SIZE THEN Failure("StructError", 0)
  ELSE IF gTr # TRANSFORM_SIZE \/ gIn # INTRINSICS_SIZE THEN Failure("ValueError", 0)
  ELSE IF gWHL # 3 * U32_SIZE THEN Failure("StructError", 0)
  ELSE [ok |-> TRUE, err |-> NoName, sized |-> L,
        used |-> gUuid + gTs + gTr + gIn + gWHL + gImg,
        rec |-> [declLen |-> L, imageLen |-> gImg]]

DEPTH_FIXED == UUID_SIZE + TIMESTAMP_SIZE + TRANSFORM_SIZE + INTRINSICS_SIZE
               + U32_SIZE + U32_SIZE

DepthLen(w, h, conf) == DEPTH_FIXED + w * h * F32_SIZE + (IF conf THEN w * h ELSE 0)

\* _parse_depth_frame; w, h are the stored dimensions, conf the header's
\* has-confidence-maps flag
ParseDepthFrameResult(avail, w, h, conf) ==
  LET gUuid == Min(UUID_SIZE, avail)
      r1 == avail - gUuid
      gTs == Min(TIMESTAMP_SIZE, r1)
      r2 == r1 - gTs
      gTr == Min(TRANSFORM_SIZE, r2)
      r3 == r2 - gTr
      gIn == Min(INTRINSICS_SIZE, r3)
      r4 == r3 - gIn
      gWH == Min(2 * U32_SIZE, r4)
      r5 == r4 - gWH
      gD == Min(w * h * F32_SIZE, r5)
      r6 == r5 - gD
      gC == IF conf THEN Min(w * h, r6) ELSE 0
  IN
  IF gTs # TIMESTAMP_SIZE THEN Failure("StructError", 0)
  ELSE IF gTr # TRANSFORM_SIZE \/ gIn # INTRINSICS_SIZE THEN Failure("ValueError", 0)
  ELSE IF gWH # 2 * U32_SIZE THEN Failure("StructError", 0)
  ELSE IF gD % F32_SIZE # 0 \/ gD \div F32_SIZE # w * h THEN Failure("ValueError", 0)
  ELSE [ok |-> TRUE, err |-> NoName, sized |-> 0,
        used |-> gUuid + gTs + gTr + gIn + gWH + gD + gC,
        rec |-> [width |-> w, height |-> h, ndepth |-> gD \div F32_SIZE,
                 nconf |-> IF conf /\ gC = w * h THEN gC ELSE -1]]


\* the largest record the bounded inputs describe; a file holds no more
AvailCap == Max(MeshLen(MaxVerts, MaxFaces, 1, TRUE),
                Max(TextureLen(MaxImage), DepthLen(MaxDim, MaxDim, TRUE)))

\* bytes left in the file at the start of a record of `len` bytes
AvailChoices(len) == IF eof THEN {0} ELSE 0..Min(len, AvailCap)

\* a faulty decoder that reads the texture frames before the mesh anchors
StageAfter_TexturesFirst(cnt, nm, nt, nd) ==
  IF nt < cnt.tex THEN "textures"
  ELSE IF nm < cnt.mesh THEN "meshes"
  ELSE IF nd < cnt.depth THEN "depths"
  ELSE "return"

\* the three for-loops of parse_lraw, in their order
StageAfter(cnt, nm, nt, nd) ==
  IF nm < cnt.mesh THEN "meshes"
  ELSE IF nt < cnt.tex THEN "textures"
  ELSE IF nd < cnt.depth THEN "depths"
  ELSE "return"

\* an exception leaves parse_lraw: nothing is returned
ParseRaise(kind) ==
  /\ parseStatus' = "error"
  /\ parseError' = kind
  /\ pc' = "parse_failed"

\* header = f.read(32) and the header checks
ReadHeader ==
  /\ pc = "header"
  /\ \E got \in 0..HEADER_SIZE, m \in MagicSamples,
        cls \in BOOLEAN, conf \in BOOLEAN,
        nm \in 0..MaxMesh, nt \in 0..MaxTex, nd \in 0..MaxDepth :
       /\ Len(m) = Min(4, got)
       /\ hdrMagic' = m
       /\ LET r == ParseHeaderResult(m, got) IN
          IF r.ok
          THEN /\ flags' = [cls |-> cls, conf |-> conf]
               /\ counts' = [mesh |-> nm, tex |-> nt, depth |-> nd]
               /\ countsRead' = TRUE
               /\ pos' = got
               /\ eof' = (got < HEADER_SIZE)
               /\ pc' = StageAfter(counts', 0, 0, 0)
               /\ UNCHANGED <<parseStatus, parseError>>
          ELSE /\ ParseRaise(r.err)
               /\ UNCHANGED <<flags, counts, countsRead, pos, eof>>
  /\ UNCHANGED svcVars
  /\ UNCHANGED calcVars
  /\ UNCHANGED apiVars
  /\ UNCHANGED envVars
  /\ UNCHANGED <<caller, mesh_anchors, texture_frames, depth_frames,
                 largestCount, lraw_data, artifacts, outcome, enhVars, pc_path>>

\* one iteration of "for i in range(mesh_count)"
ParseMeshAnchorStep ==
  /\ pc = "meshes"
  /\ \E V \in VertexCounts, F \in FaceCounts, hc \in {0, 1} :
     \E faceData \in [1..F -> FaceSamples] :
     \E avail \in AvailChoices(MeshLen(V, F, hc, flags.cls)) :
       LET r == ParseMeshAnchorResult(avail, V, F, hc, faceData, flags.cls) IN
       /\ largestCount' = Max(largestCount, r.sized)
       /\ IF r.ok
          THEN /\ mesh_anchors' = Append(mesh_anchors,
                                    r.rec @@ [start |-> pos, stop |-> pos + r.used])
               /\ pos' = pos + r.used
               /\ eof' = (eof \/ avail < MeshLen(V, F, hc, flags.cls))
               /\ pc' = StageAfter(counts, Len(mesh_anchors'), 0, 0)
               /\ UNCHANGED <<parseStatus, parseError>>
          ELSE /\ ParseRaise(r.err)
               /\ eof' = TRUE
               /\ UNCHANGED <<mesh_anchors, pos>>
  /\ UNCHANGED svcVars
  /\ UNCHANGED calcVars
  /\ UNCHANGED apiVars
  /\ UNCHANGED envVars
  /\ UNCHANGED <<caller, hdrMagic, flags, counts, countsRead, texture_frames,
                 depth_frames, lraw_data, artifacts, outcome, enhVars, pc_path>>

\* one iteration of "for i in range(texture_count)"
ParseTextureFrameStep ==
  /\ pc = "textures"
  /\ \E L \in ImageLengths :
     \E avail \in AvailChoices(TextureLen(L)) :
       LET r == ParseTextureFrameResult(avail, L) IN
       /\ largestCount' = Max(largestCount, r.sized)
       /\ IF r.ok
          THEN /\ texture_frames' = Append(texture_frames,
                                      r.rec @@ [start |-> pos, stop |-> pos + r.used])
               /\ pos' = pos + r.used
               /\ eof' = (eof \/ avail < TextureLen(L))
               /\ pc' = StageAfter(counts, Len(mesh_anchors), Len(texture_frames'), 0)
               /\ UNCHANGED <<parseStatus, parseError>>
          ELSE /\ ParseRaise(r.err)
               /\ eof' = TRUE
               /\ UNCHANGED <<texture_frames, pos>>
  /\ UNCHANGED svcVars
  /\ UNCHANGED calcVars
  /\ UNCHANGED apiVars
  /\ UNCHANGED envVars
  /\ UNCHANGED <<caller, hdrMagic, flags, counts, countsRead, mesh_anchors,
                 depth_frames, lraw_data, artifacts, outcome, enhVars, pc_path>>

\* one iteration of "for i in range(depth_count)"
ParseDepthFrameStep ==
  /\ pc = "depths"
  /\ \E w \in 1..MaxDim, h \in 1..MaxDim :
     \E avail \in AvailChoices(DepthLen(w, h, flags.conf)) :
       LET r == ParseDepthFrameResult(avail, w, h, flags.conf) IN
       /\ IF r.ok
          THEN /\ depth_frames' = Append(depth_frames,
                                    r.rec @@ [start |-> pos, stop |-> pos + r.used])
               /\ pos' = pos + r.used
               /\ eof' = (eof \/ avail < DepthLen(w, h, flags.conf))
               /\ pc' = StageAfter(counts, Len(mesh_anchors), Len(texture_frames),
                                   Len(depth_frames'))
               /\ UNCHANGED <<parseStatus, parseError>>
          ELSE /\ ParseRaise(r.err)
               /\ eof' = TRUE
               /\ UNCHANGED <<depth_frames, pos>>
  /\ UNCHANGED svcVars
  /\ UNCHANGED calcVars
  /\ UNCHANGED apiVars
  /\ UNCHANGED envVars
  /\ UNCHANGED <<caller, hdrMagic, flags, counts, countsRead, mesh_anchors,
                 texture_frames, largestCount, lraw_data, artifacts, outcome,
                 enhVars, pc_path>>

RECURSIVE SumVerts(_), SumFaces(_)
\* total_vertices += len(anchor.vertices), over the anchors decoded
SumVerts(anchors) ==
  IF anchors = <<>> THEN 0
  ELSE SumVerts(SubSeq(anchors, 1, Len(anchors) - 1)) + anchors[Len(anchors)].nverts
\* total_faces += len(anchor.faces)
SumFaces(anchors) ==
  IF anchors = <<>> THEN 0
  ELSE SumFaces(SubSeq(anchors, 1, Len(anchors) - 1)) + Len(anchors[Len(anchors)].faces)

\* return LRAWData(...): the only place the decoded records leave parse_lraw
ParseReturn ==
  /\ pc = "return"
  /\ parseStatus' = "ok"
  /\ lraw_data' = [mesh_anchors |-> mesh_anchors,
                   texture_frames |-> texture_frames,
                   depth_frames |-> depth_frames,
                   total_vertices |-> SumVerts(mesh_anchors),
                   total_faces |-> SumFaces(mesh_anchors)]
  /\ pc' = "parsed"
  /\ UNCHANGED svcVars
  /\ UNCHANGED calcVars
  /\ UNCHANGED apiVars
  /\ UNCHANGED envVars
  /\ UNCHANGED <<caller, hdrMagic, flags, counts, countsRead, pos, eof,
                 mesh_anchors, texture_frames, depth_frames, parseError,
                 largestCount, artifacts, outcome, enhVars, pc_path>>


(* ------------------------- mesh reconstruction ------------------------ *)
\* numpy: a uint32 array element plus a Python int, wrapping modulo 2^32
U32Add(a, n) ==
  LET lo == a.lo + (n % Half)
      hi == a.hi + ((n \div Half) % Half) + (lo \div Half)
  IN [hi |-> hi % Half, lo |-> lo % Half]

\* anchor.faces + vertex_offset
OffsetFaces(faces, vertex_offset) ==
  [k \in 1..Len(faces) |-> [c \in 1..3 |-> U32Add(faces[k][c], vertex_offset)]]

\* a faulty merge that advances the offset by the anchor's face count
NextOffset_ByFaces(vertex_offset, anchor) == vertex_offset + Len(anchor.faces)

\* vertex_offset += len(vertices)
NextOffset(vertex_offset, anchor) == vertex_offset + anchor.nverts

RECURSIVE ReconstructLoop(_, _, _)
\* the loop "for anchor in lraw_data.mesh_anchors" of _reconstruct_mesh;
\* acc holds all_vertices, all_normals (as row counts), all_faces, vertex_offset
ReconstructLoop(anchors, k, acc) ==
  IF k > Len(anchors) THEN acc
  ELSE ReconstructLoop(anchors, k + 1,
         [nverts |-> acc.nverts + anchors[k].nverts,
          nnormals |-> acc.nnormals + anchors[k].nnormals,
          all_faces |-> Append(acc.all_faces,
                               OffsetFaces(anchors[k].faces, acc.vertex_offset)),
          vertex_offset |-> NextOffset(acc.vertex_offset, anchors[k])])

\* the merged arrays _reconstruct_mesh hands to _write_ply
ReconstructMesh(anchors) ==
  ReconstructLoop(anchors, 1,
    [nverts |-> 0, nnormals |-> 0, all_faces |-> <<>>, vertex_offset |-> 0])

(* ---------------------------- orchestrators --------------------------- *)
RawProcessStart ==
  /\ pc = "idle"
  /\ caller' = "raw"
  /\ pc' = "header"
  /\ UNCHANGED svcVars
  /\ UNCHANGED calcVars
  /\ UNCHANGED apiVars
  /\ UNCHANGED envVars
  /\ UNCHANGED <<hdrMagic, flags, counts, countsRead, pos, eof, mesh_anchors,
                 texture_frames, depth_frames, parseStatus, parseError,
                 largestCount, lraw_data, artifacts, outcome, enhVars, pc_path>>

SimpleProcessStart ==
  /\ pc = "idle"
  /\ caller' = "simple"
  /\ artifacts' = artifacts \cup {ScanDir}
  /\ pc' = "header"
  /\ UNCHANGED svcVars
  /\ UNCHANGED calcVars
  /\ UNCHANGED apiVars
  /\ UNCHANGED envVars
  /\ UNCHANGED <<hdrMagic, flags, counts, countsRead, pos, eof, mesh_anchors,
                 texture_frames, depth_frames, parseStatus, parseError,
                 largestCount, lraw_data, outcome, enhVars, pc_path>>

parseVars == <<hdrMagic, flags, counts, countsRead, pos, eof, mesh_anchors,
               texture_frames, depth_frames, parseStatus, parseError,
               largestCount, lraw_data>>

\* what RawDataProcessor.process hands back when an exception leaves it
RawRaised(err) == [kind |-> "raised", error |-> err]

\* a faulty pipeline that reports an error but still names a point cloud
SimpleError_WithPaths(err) ==
  [kind |-> "returned", status |-> "error", pointcloud_path |-> "pointcloud.ply",
   mesh_path |-> NoName, exports |-> {}, error |-> err]

\* PipelineResult(status="error", error=str(e))
SimpleError(err) ==
  [kind |-> "returned", status |-> "error", pointcloud_path |-> NoName,
   mesh_path |-> NoName, exports |-> {}, error |-> err]

\* lraw_data = self.parse_lraw(raw_path) raised: process has no handler
RawParseFailed ==
  /\ pc = "parse_failed" /\ caller = "raw"
  /\ outcome' = RawRaised(parseError)
  /\ pc' = "done"
  /\ UNCHANGED svcVars
  /\ UNCHANGED calcVars
  /\ UNCHANGED apiVars
  /\ UNCHANGED envVars
  /\ UNCHANGED <<caller, parseVars, artifacts, enhVars, pc_path>>

\* the same call inside SimplePipeline.process's try block
SimpleParseFailed ==
  /\ pc = "parse_failed" /\ caller = "simple"
  /\ outcome' = SimpleError(parseError)
  /\ pc' = "done"
  /\ UNCHANGED svcVars
  /\ UNCHANGED calcVars
  /\ UNCHANGED apiVars
  /\ UNCHANGED envVars
  /\ UNCHANGED <<caller, parseVars, artifacts, enhVars, pc_path>>

\* mesh_path = await self._reconstruct_mesh(lraw_data, output_dir)
RawReconstructMesh ==
  /\ pc = "parsed" /\ caller = "raw"
  /\ IF lraw_data.mesh_anchors = <<>>
     THEN \* np.vstack([]) raises ValueError
          /\ outcome' = RawRaised("ValueError")
          /\ artifacts' = artifacts \cup {ScanDir}
          /\ pc' = "done"
          /\ UNCHANGED mesh
     ELSE /\ mesh' = ReconstructMesh(lraw_data.mesh_anchors)
          /\ artifacts' = artifacts \cup {ScanDir, "reconstructed_mesh.ply"}
          /\ pc' = "raw_pointcloud"
          /\ UNCHANGED outcome
  /\ UNCHANGED svcVars
  /\ UNCHANGED calcVars
  /\ UNCHANGED apiVars
  /\ UNCHANGED envVars
  /\ UNCHANGED <<caller, parseVars, enh_i, fusion_results, all_enhanced_points,
                 frameLog, enhanced, pc_path>>

\* pointcloud_path = await self._extract_pointcloud(lraw_data, output_dir)
RawExtractPointcloud ==
  /\ pc = "raw_pointcloud"
  /\ artifacts' = artifacts \cup {"pointcloud.ply"}
  /\ pc' = "raw_textures"
  /\ UNCHANGED svcVars
  /\ UNCHANGED calcVars
  /\ UNCHANGED apiVars
  /\ UNCHANGED envVars
  /\ UNCHANGED <<caller, parseVars, outcome, enhVars, pc_path>>

\* textures_dir = await self._save_textures(lraw_data, output_dir)
RawSaveTextures ==
  /\ pc = "raw_textures"
  /\ artifacts' = artifacts \cup {"textures/"} \cup
       (IF lraw_data.texture_frames # <<>> THEN {"textures/*"} ELSE {})
  /\ pc' = "raw_depth"
  /\ UNCHANGED svcVars
  /\ UNCHANGED calcVars
  /\ UNCHANGED apiVars
  /\ UNCHANGED envVars
  /\ UNCHANGED <<caller, parseVars, outcome, enhVars, pc_path>>

\* depth_info = await self._process_depth_data(lraw_data, output_dir)
RawProcessDepth ==
  /\ pc = "raw_depth"
  /\ artifacts' = artifacts \cup {"depth/"} \cup
       (IF lraw_data.depth_frames # <<>> THEN {"depth/*"} ELSE {})
  /\ pc' = "ai"
  /\ UNCHANGED svcVars
  /\ UNCHANGED calcVars
  /\ UNCHANGED apiVars
  /\ UNCHANGED envVars
  /\ UNCHANGED <<caller, parseVars, outcome, enhVars, pc_path>>


(* --------------------------- AI enhancement --------------------------- *)
\* where the caller of _enhance_depth_with_ai goes on
AfterEnhance(c) == IF c = "raw" THEN "raw_result" ELSE "simple_pc"

\* what can happen to one texture frame inside the loop
FrameOutcomes == {"decode_failed", "predict_none", "fuse_none",
                  "save_raised", "extract_raised", "ok"}

\* outcomes the loop answers with "continue"
SkippedOutcomes == {"decode_failed", "predict_none", "fuse_none"}
\* outcomes that raise out of the loop, into the function's own except clause
RaisedOutcomes == {"save_raised", "extract_raised"}

RECURSIVE SumPoints(_)
\* len(np.vstack(all_enhanced_points))
SumPoints(arrays) ==
  IF arrays = <<>> THEN 0
  ELSE SumPoints(SubSeq(arrays, 1, Len(arrays) - 1)) + arrays[Len(arrays)].n

\* the two early returns and the setup before the loop
EnhanceBegin ==
  /\ pc = "ai"
  /\ \E env \in {"ok", "no_services", "no_pil"} :
       IF \/ env # "ok"
          \/ lraw_data.texture_frames = <<>>
          \/ lraw_data.depth_frames = <<>>
       THEN /\ enhanced' = None
            /\ pc' = AfterEnhance(caller)
            /\ UNCHANGED <<enh_i, fusion_results, all_enhanced_points, frameLog,
                           artifacts>>
       ELSE /\ enh_i' = 0
            /\ artifacts' = artifacts \cup {"enhanced_depth/"}
            /\ fusion_results' = <<>>
            /\ all_enhanced_points' = <<>>
            /\ frameLog' = <<>>
            /\ pc' = "ai_loop"
            /\ UNCHANGED enhanced
  /\ UNCHANGED svcVars
  /\ UNCHANGED calcVars
  /\ UNCHANGED apiVars
  /\ UNCHANGED envVars
  /\ UNCHANGED <<caller, parseVars, outcome, mesh, pc_path>>

\* one iteration of "for i, texture_frame in enumerate(...)"
EnhanceFrame ==
  /\ pc = "ai_loop"
  /\ \E o \in FrameOutcomes, n \in 0..MaxPoints :
       /\ o # "ok" => n = 0
       /\ frameLog' = Append(frameLog, [frame |-> enh_i, outcome |-> o, n |-> n])
       /\ fusion_results' =
            IF o \in {"extract_raised", "ok"}
            THEN Append(fusion_results, [frame |-> enh_i]) ELSE fusion_results
       /\ artifacts' =
            IF o \in {"extract_raised", "ok"}
            THEN artifacts \cup {"enhanced_depth/*"} ELSE artifacts
       /\ all_enhanced_points' =
            IF o = "ok" /\ n > 0
            THEN Append(all_enhanced_points, [frame |-> enh_i, n |-> n])
            ELSE all_enhanced_points
       /\ IF o \in RaisedOutcomes
          THEN \* except Exception: ... return None
               /\ enhanced' = None
               /\ pc' = AfterEnhance(caller)
               /\ UNCHANGED enh_i
          ELSE /\ enh_i' = enh_i + 1
               /\ pc' = IF enh_i' < Len(lraw_data.texture_frames)
                        THEN "ai_loop" ELSE "ai_merge"
               /\ UNCHANGED enhanced
  /\ UNCHANGED svcVars
  /\ UNCHANGED calcVars
  /\ UNCHANGED apiVars
  /\ UNCHANGED envVars
  /\ UNCHANGED <<caller, parseVars, outcome, mesh, pc_path>>

\* cancel_processing: the scan is marked cancelled while the enhancement loop
\* runs; enh_i is the frame in flight.  Nothing of the orchestrator reads it.
RequestCancel ==
  /\ pc = "ai_loop"
  /\ cancelAt = -1
  /\ cancelAt' = enh_i
  /\ UNCHANGED notifyFailed
  /\ UNCHANGED <<codecVars, enhVars, pc_path>>
  /\ UNCHANGED svcVars
  /\ UNCHANGED calcVars
  /\ UNCHANGED apiVars

\* after the loop: merge, write enhanced_pointcloud.ply, build the dict
EnhanceFinish ==
  /\ pc = "ai_merge"
  /\ IF all_enhanced_points # <<>>
     THEN /\ artifacts' = artifacts \cup {"enhanced_pointcloud.ply"}
          /\ enhanced' = [enhanced_pointcloud_path |-> "enhanced_pointcloud.ply",
                          frames_processed |-> Len(fusion_results),
                          total_points |-> SumPoints(all_enhanced_points),
                          fusion_stats |-> fusion_results,
                          merged |-> all_enhanced_points]
     ELSE /\ enhanced' = None
          /\ UNCHANGED artifacts
  /\ pc' = AfterEnhance(caller)
  /\ UNCHANGED svcVars
  /\ UNCHANGED calcVars
  /\ UNCHANGED apiVars
  /\ UNCHANGED envVars
  /\ UNCHANGED <<caller, parseVars, outcome, mesh, enh_i, fusion_results,
                 all_enhanced_points, frameLog, pc_path>>

\* the result dict of RawDataProcessor.process
RawReturn ==
  /\ pc = "raw_result"
  /\ outcome' = [kind |-> "returned",
                 mesh_path |-> "reconstructed_mesh.ply",
                 pointcloud_path |-> "pointcloud.ply",
                 statistics |-> [mesh_anchors |-> Len(lraw_data.mesh_anchors),
                                 total_vertices |-> lraw_data.total_vertices,
                                 total_faces |-> lraw_data.total_faces,
                                 texture_frames |-> Len(lraw_data.texture_frames),
                                 depth_frames |-> Len(lraw_data.depth_frames)],
                 ai_enhanced |-> enhanced]
  /\ pc' = "done"
  /\ UNCHANGED svcVars
  /\ UNCHANGED calcVars
  /\ UNCHANGED apiVars
  /\ UNCHANGED envVars
  /\ UNCHANGED <<caller, parseVars, artifacts, enhVars, pc_path>>

(* --------------------------- SimplePipeline --------------------------- *)
\* Stage 2: enhanced_result = await self._raw_processor._enhance_depth_with_ai(...)
SimpleEnhanceCall ==
  /\ pc = "parsed" /\ caller = "simple"
  /\ pc' = "ai"
  /\ UNCHANGED svcVars
  /\ UNCHANGED calcVars
  /\ UNCHANGED apiVars
  /\ UNCHANGED envVars
  /\ UNCHANGED <<caller, parseVars, artifacts, outcome, enhVars, pc_path>>

\* Stage 3: the enhanced cloud, or the mesh-based fallback
SimplePointcloud ==
  /\ pc = "simple_pc"
  /\ IF enhanced # None
     THEN /\ pc_path' = enhanced.enhanced_pointcloud_path
          /\ pc' = "simple_mesh"
          /\ UNCHANGED <<artifacts, outcome>>
     ELSE IF lraw_data.mesh_anchors = <<>>
     THEN \* np.vstack([]) raises inside _extract_pointcloud
          /\ outcome' = SimpleError("ValueError")
          /\ pc' = "done"
          /\ UNCHANGED <<artifacts, pc_path>>
     ELSE /\ pc_path' = "pointcloud.ply"
          /\ artifacts' = artifacts \cup {"pointcloud.ply"}
          /\ pc' = "simple_mesh"
          /\ UNCHANGED outcome
  /\ UNCHANGED svcVars
  /\ UNCHANGED calcVars
  /\ UNCHANGED apiVars
  /\ UNCHANGED envVars
  /\ UNCHANGED <<caller, parseVars, enhVars>>

\* Stages 4 and 5: _poisson_reconstruction, _export_formats, the result
SimpleMeshAndExport ==
  /\ pc = "simple_mesh"
  /\ \E o \in {"no_open3d", "mesh", "raised"}, ex \in {{}, {"glb", "obj"}} :
       IF o = "raised"
       THEN /\ ex = {}
            /\ outcome' = SimpleError("RuntimeError")
            /\ UNCHANGED artifacts
       ELSE /\ o = "no_open3d" => ex = {}
            /\ artifacts' = artifacts \cup (IF o = "mesh" THEN {"mesh.ply"} ELSE {})
                                      \cup ex
            /\ outcome' = [kind |-> "returned", status |-> "success",
                           pointcloud_path |-> pc_path,
                           mesh_path |-> IF o = "mesh" THEN "mesh.ply" ELSE pc_path,
                           exports |-> {"ply"} \cup ex,
                           error |-> NoName,
                           ai_enhanced |-> (enhanced # None)]
  /\ pc' = "done"
  /\ UNCHANGED svcVars
  /\ UNCHANGED calcVars
  /\ UNCHANGED apiVars
  /\ UNCHANGED envVars
  /\ UNCHANGED <<caller, parseVars, enhVars, pc_path>>

(* ------------------------ progress notifications ---------------------- *)
\* the stage boundaries at which RawDataProcessor.process awaits the callback
RawNotifyPoints == {"parsed", "raw_pointcloud", "raw_textures", "raw_depth",
                    "ai", "raw_result"}

\* the stage boundaries at which SimplePipeline.process reports progress
SimpleNotifyPoints == {"header", "parsed", "simple_pc", "simple_mesh"}

\* "await progress_callback(...)" in RawDataProcessor.process when the callback
\* raises: nothing catches it, the exception leaves process
RawNotifyRaised ==
  /\ \/ pc = "idle"
     \/ caller = "raw" /\ pc \in RawNotifyPoints
  /\ caller' = "raw"
  /\ outcome' = RawRaised("CallbackError")
  /\ notifyFailed' = TRUE
  /\ pc' = "done"
  /\ UNCHANGED <<parseVars, artifacts, enhVars, pc_path, cancelAt>>
  /\ UNCHANGED svcVars
  /\ UNCHANGED calcVars
  /\ UNCHANGED apiVars

\* SimplePipeline._report_progress when the callback raises: the exception is
\* caught and logged, the stage goes on
SimpleNotifyFailed ==
  /\ caller = "simple" /\ pc \in SimpleNotifyPoints
  /\ notifyFailed' = TRUE
  /\ UNCHANGED <<codecVars, enhVars, pc_path, cancelAt>>
  /\ UNCHANGED svcVars
  /\ UNCHANGED calcVars
  /\ UNCHANGED apiVars

(* ----------------------------- behaviours ----------------------------- *)
InitPipeline ==
  /\ caller = NoName
  /\ pc = "idle"
  /\ hdrMagic = <<>>
  /\ flags = [cls |-> FALSE, conf |-> FALSE]
  /\ counts = [mesh |-> 0, tex |-> 0, depth |-> 0]
  /\ countsRead = FALSE
  /\ pos = 0
  /\ eof = FALSE
  /\ mesh_anchors = <<>>
  /\ texture_frames = <<>>
  /\ depth_frames = <<>>
  /\ parseStatus = "running"
  /\ parseError = NoName
  /\ largestCount = 0
  /\ lraw_data = None
  /\ artifacts = {}
  /\ outcome = None
  /\ mesh = None
  /\ enh_i = 0
  /\ fusion_results = <<>>
  /\ all_enhanced_points = <<>>
  /\ frameLog = <<>>
  /\ enhanced = None
  /\ pc_path = NoName
  /\ notifyFailed = FALSE
  /\ cancelAt = -1

Threads == 1..NumThreads

\* a thread that has not called anything yet
IdleThread == [pc |-> "idle", op |-> NoName, svc |-> 0, ret |-> NoName,
               cause |-> NoName, calls |-> 0]

\* the module as imported: no instance, nothing constructed
InitService ==
  /\ depth_anything_instance = 0
  /\ services = <<>>
  /\ thr = [t \in Threads |-> IdleThread]
  /\ depsOk = TRUE

\* no calibration, fusion or extraction call in progress
NoCall == [stage |-> "idle"]

InitCalc ==
  /\ fusion = NoCall
  /\ extraction = NoCall

\* no processing run reports progress
ProgressIdle == progress = [run |-> NoName, log |-> <<>>]

\* the scans and websocket objects of the model
ScanIds == {"scan_a", "scan_b"}

Sockets == 1..MaxSockets

\* a dictionary without any key
EmptyDict == [k \in {} |-> <<>>]

\* d[k] = v, and del d[k]
DictSet(d, k, v) == [j \in DOMAIN d \cup {k} |-> IF j = k THEN v ELSE d[j]]

DictDel(d, k) == [j \in DOMAIN d \ {k} |-> d[j]]

\* no broadcast is running
BcastIdle ==
  [state |-> "idle", scan |-> NoName, idx |-> 0, cur |-> 0, detached |-> FALSE,
   disconnected |-> <<>>, delivered |-> {}, stayed |-> {}]

\* WebSocketManager.__init__; no socket has been accepted
WsIdle ==
  /\ connections = EmptyDict
  /\ sockets = [w \in Sockets |-> "connecting"]
  /\ bcast = BcastIdle

\* no upload request has been answered
NoReply == [op |-> NoName, scan |-> NoName, status |-> NoName]

\* _upload_sessions = {} at import; nothing uploaded
UploadIdle ==
  /\ upload_sessions = <<>>
  /\ upload_count = 0
  /\ scan_files = EmptyDict
  /\ reply = NoReply

\* the start_processing requests of the model
Requests == 1..MaxRequests

\* a request that has not been made
FreeHandler == [pc |-> "free", scan |-> NoName, status |-> NoName]

\* no scan is stored and no request is in flight
ScanIdle ==
  /\ scans = EmptyDict
  /\ handlers = [r \in Requests |-> FreeHandler]
  /\ tasks = <<>>

InitApi ==
  /\ ProgressIdle
  /\ WsIdle
  /\ UploadIdle
  /\ ScanIdle

Init == InitPipeline /\ InitService /\ InitCalc /\ InitApi

Next ==
  \/ RawNotifyRaised
  \/ SimpleNotifyFailed
  \/ RawProcessStart
  \/ SimpleProcessStart
  \/ ReadHeader
  \/ ParseMeshAnchorStep
  \/ ParseTextureFrameStep
  \/ ParseDepthFrameStep
  \/ ParseReturn
  \/ RawParseFailed
  \/ SimpleParseFailed
  \/ RawReconstructMesh
  \/ RawExtractPointcloud
  \/ RawSaveTextures
  \/ RawProcessDepth
  \/ EnhanceBegin
  \/ EnhanceFrame
  \/ EnhanceFinish
  \/ RawReturn
  \/ SimpleEnhanceCall
  \/ SimplePointcloud
  \/ SimpleMeshAndExport

Spec == Init /\ [][Next]_vars


(* ---------------- the enhancement loop on its own ---------------------- *)
\* A decoded capture with one anchor, nt texture frames and nd depth frames,
\* as parse_lraw returns it for a complete file without flags.
EnhAnchor ==
  ParseMeshAnchorResult(MeshLen(1, 0, 0, FALSE), 1, 0, 0, <<>>, FALSE).rec
  @@ [start |-> HEADER_SIZE, stop |-> HEADER_SIZE + MeshLen(1, 0, 0, FALSE)]

\* file offset after the header and na such anchors
EnhBase(na) == HEADER_SIZE + na * MeshLen(1, 0, 0, FALSE)

EnhTexture(base, i) ==
  ParseTextureFrameResult(TextureLen(MaxImage), MaxImage).rec
  @@ [start |-> base + (i - 1) * TextureLen(MaxImage),
      stop |-> base + i * TextureLen(MaxImage)]

EnhDepth(base, nt, i) ==
  ParseDepthFrameResult(DepthLen(1, 1, FALSE), 1, 1, FALSE).rec
  @@ [start |-> base + nt * TextureLen(MaxImage)
                + (i - 1) * DepthLen(1, 1, FALSE),
      stop |-> base + nt * TextureLen(MaxImage)
               + i * DepthLen(1, 1, FALSE)]

\* the state in which an orchestrator calls _enhance_depth_with_ai.
\* RawDataProcessor.process gets here only with a mesh anchor (without one
\* _reconstruct_mesh has raised); SimplePipeline.process also without.
InitEnhance ==
  \E c \in {"raw", "simple"}, na \in 0..1,
     nt \in 0..MaxEnhFrames, nd \in 0..MaxDepth :
    /\ c = "raw" => na = 1
    /\ caller = c
    /\ pc = "ai"
    /\ hdrMagic = LRAW_MAGIC
    /\ flags = [cls |-> FALSE, conf |-> FALSE]
    /\ counts = [mesh |-> na, tex |-> nt, depth |-> nd]
    /\ countsRead = TRUE
    /\ mesh_anchors = [i \in 1..na |-> EnhAnchor]
    /\ texture_frames = [i \in 1..nt |-> EnhTexture(EnhBase(na), i)]
    /\ depth_frames = [i \in 1..nd |-> EnhDepth(EnhBase(na), nt, i)]
    /\ pos = EnhBase(na) + nt * TextureLen(MaxImage) + nd * DepthLen(1, 1, FALSE)
    /\ eof = FALSE
    /\ parseStatus = "ok"
    /\ parseError = NoName
    /\ largestCount = (IF na + nt > 0 THEN 1 ELSE 0)
    /\ lraw_data = [mesh_anchors |-> mesh_anchors,
                    texture_frames |-> texture_frames,
                    depth_frames |-> depth_frames,
                    total_vertices |-> SumVerts(mesh_anchors),
                    total_faces |-> SumFaces(mesh_anchors)]
    /\ artifacts = IF c = "simple" THEN {ScanDir}
                   ELSE {ScanDir, "reconstructed_mesh.ply", "pointcloud.ply",
                         "textures/", "depth/"}
                        \cup (IF nt > 0 THEN {"textures/*"} ELSE {})
                        \cup (IF nd > 0 THEN {"depth/*"} ELSE {})
    /\ outcome = None
    /\ mesh = IF c = "simple" THEN None ELSE ReconstructMesh(<<EnhAnchor>>)
    /\ enh_i = 0
    /\ fusion_results = <<>>
    /\ all_enhanced_points = <<>>
    /\ frameLog = <<>>
    /\ enhanced = None
    /\ pc_path = NoName
    /\ notifyFailed = FALSE
    /\ cancelAt = -1
    /\ InitService
    /\ InitCalc
    /\ InitApi

NextEnhance ==
  \/ EnhanceBegin
  \/ EnhanceFrame
  \/ RequestCancel
  \/ EnhanceFinish
  \/ RawReturn
  \/ SimplePointcloud
  \/ SimpleMeshAndExport

SpecEnhance == InitEnhance /\ [][NextEnhance]_vars

(* ------------------- the shared depth-estimation service --------------- *)
\* DepthAnythingService.__init__
NewService == [model |-> FALSE, processor |-> FALSE, is_loaded |-> FALSE,
               inits |-> 0]

\* the thread's record once load_model has returned ok to its caller:
\* predict goes on to inference or returns None; a direct call returns the bool
AfterLoad(rec, ok) ==
  IF rec.op = "predict"
  THEN IF ok THEN [rec EXCEPT !.pc = "infer"]
       ELSE [rec EXCEPT !.pc = "done", !.ret = "None", !.cause = "unavailable"]
  ELSE [rec EXCEPT !.pc = "done", !.ret = IF ok THEN "True" ELSE "False",
                   !.cause = IF ok THEN "loaded" ELSE "unavailable"]

\* get_depth_anything_service: if _depth_anything_instance is None
GetServiceCheck(t) ==
  /\ thr[t].pc = "idle"
  /\ thr' = [thr EXCEPT ![t].pc = IF depth_anything_instance = 0
                                  THEN "gs_create" ELSE "gs_return"]
  /\ UNCHANGED <<depth_anything_instance, services, depsOk>>
  /\ UNCHANGED pipelineVars
  /\ UNCHANGED calcVars
  /\ UNCHANGED apiVars

\* _depth_anything_instance = DepthAnythingService(...)
GetServiceCreate(t) ==
  /\ thr[t].pc = "gs_create"
  /\ services' = Append(services, NewService)
  /\ depth_anything_instance' = Len(services) + 1
  /\ thr' = [thr EXCEPT ![t].pc = "gs_return"]
  /\ UNCHANGED depsOk
  /\ UNCHANGED pipelineVars
  /\ UNCHANGED calcVars
  /\ UNCHANGED apiVars

\* return _depth_anything_instance
GetServiceReturn(t) ==
  /\ thr[t].pc = "gs_return"
  /\ thr' = [thr EXCEPT ![t].svc = depth_anything_instance, ![t].pc = "have_svc"]
  /\ UNCHANGED <<depth_anything_instance, services, depsOk>>
  /\ UNCHANGED pipelineVars
  /\ UNCHANGED calcVars
  /\ UNCHANGED apiVars

\* predict: if not self._is_loaded: ... self.load_model()
PredictEnter(t) ==
  /\ thr[t].pc = "have_svc"
  /\ thr' = [thr EXCEPT ![t].op = "predict",
                        ![t].pc = IF services[thr[t].svc].is_loaded
                                  THEN "infer" ELSE "load_enter"]
  /\ UNCHANGED <<depth_anything_instance, services, depsOk>>
  /\ UNCHANGED pipelineVars
  /\ UNCHANGED calcVars
  /\ UNCHANGED apiVars

\* load_model: if self._is_loaded: return True   (called directly or by predict)
LoadEnter(t) ==
  /\ thr[t].pc \in {"have_svc", "load_enter"}
  /\ LET rec == IF thr[t].pc = "have_svc"
                THEN [thr[t] EXCEPT !.op = "load_model"] ELSE thr[t]
     IN thr' = [thr EXCEPT ![t] = IF services[rec.svc].is_loaded
                                  THEN AfterLoad(rec, TRUE)
                                  ELSE [rec EXCEPT !.pc = "load_imports"]]
  /\ UNCHANGED <<depth_anything_instance, services, depsOk>>
  /\ UNCHANGED pipelineVars
  /\ UNCHANGED calcVars
  /\ UNCHANGED apiVars

\* if not _ensure_imports(): return False
LoadImports(t) ==
  /\ thr[t].pc = "load_imports"
  /\ thr' = [thr EXCEPT ![t] = IF depsOk
                               THEN [thr[t] EXCEPT !.pc = "load_processor"]
                               ELSE AfterLoad(thr[t], FALSE)]
  /\ UNCHANGED <<depth_anything_instance, services, depsOk>>
  /\ UNCHANGED pipelineVars
  /\ UNCHANGED calcVars
  /\ UNCHANGED apiVars

\* self.processor = AutoImageProcessor.from_pretrained(...), which may raise
LoadProcessor(t) ==
  /\ thr[t].pc = "load_processor"
  /\ \E ok \in BOOLEAN :
       IF ok
       THEN /\ services' = [services EXCEPT ![thr[t].svc].processor = TRUE]
            /\ thr' = [thr EXCEPT ![t].pc = "load_weights"]
       ELSE /\ thr' = [thr EXCEPT ![t] = AfterLoad(thr[t], FALSE)]
            /\ UNCHANGED services
  /\ UNCHANGED <<depth_anything_instance, depsOk>>
  /\ UNCHANGED pipelineVars
  /\ UNCHANGED calcVars
  /\ UNCHANGED apiVars

\* self.model = AutoModelForDepthEstimation.from_pretrained(...), which may raise
LoadWeights(t) ==
  /\ thr[t].pc = "load_weights"
  /\ \E ok \in BOOLEAN :
       IF ok
       THEN /\ services' = [services EXCEPT ![thr[t].svc].model = TRUE]
            /\ thr' = [thr EXCEPT ![t].pc = "load_finish"]
       ELSE /\ thr' = [thr EXCEPT ![t] = AfterLoad(thr[t], FALSE)]
            /\ UNCHANGED services
  /\ UNCHANGED <<depth_anything_instance, depsOk>>
  /\ UNCHANGED pipelineVars
  /\ UNCHANGED calcVars
  /\ UNCHANGED apiVars

\* device selection, model.to(device), model.eval(), self._is_loaded = True;
\* model.to may raise, which leaves model and processor assigned
LoadFinish(t) ==
  /\ thr[t].pc = "load_finish"
  /\ \E ok \in BOOLEAN :
       IF ok
       THEN /\ services' = [services EXCEPT ![thr[t].svc].is_loaded = TRUE,
                                            ![thr[t].svc].inits = @ + 1]
            /\ thr' = [thr EXCEPT ![t] = AfterLoad(thr[t], TRUE)]
       ELSE /\ thr' = [thr EXCEPT ![t] = AfterLoad(thr[t], FALSE)]
            /\ UNCHANGED services
  /\ UNCHANGED <<depth_anything_instance, depsOk>>
  /\ UNCHANGED pipelineVars
  /\ UNCHANGED calcVars
  /\ UNCHANGED apiVars

\* the try block of predict: a depth map, or None when anything in it raises
PredictInfer(t) ==
  /\ thr[t].pc = "infer"
  /\ \E ok \in BOOLEAN :
       thr' = [thr EXCEPT ![t].pc = "done",
                          ![t].ret = IF ok THEN "depth" ELSE "None",
                          ![t].cause = IF ok THEN "predicted"
                                       ELSE "compute_failure"]
  /\ UNCHANGED <<depth_anything_instance, services, depsOk>>
  /\ UNCHANGED pipelineVars
  /\ UNCHANGED calcVars
  /\ UNCHANGED apiVars

\* a faulty unload_model that leaves _is_loaded set
UnloadModel_KeepsLoaded(t) ==
  /\ thr[t].pc = "have_svc"
  /\ services' = [services EXCEPT ![thr[t].svc].model = FALSE,
                                  ![thr[t].svc].processor = FALSE]
  /\ thr' = [thr EXCEPT ![t].op = "unload_model", ![t].pc = "done",
                        ![t].ret = "None", ![t].cause = "unloaded"]
  /\ UNCHANGED <<depth_anything_instance, depsOk>>
  /\ UNCHANGED pipelineVars
  /\ UNCHANGED calcVars
  /\ UNCHANGED apiVars

\* unload_model
UnloadModel(t) ==
  /\ thr[t].pc = "have_svc"
  /\ services' = [services EXCEPT ![thr[t].svc].model = FALSE,
                                  ![thr[t].svc].processor = FALSE,
                                  ![thr[t].svc].is_loaded = FALSE]
  /\ thr' = [thr EXCEPT ![t].op = "unload_model", ![t].pc = "done",
                        ![t].ret = "None", ![t].cause = "unloaded"]
  /\ UNCHANGED <<depth_anything_instance, depsOk>>
  /\ UNCHANGED pipelineVars
  /\ UNCHANGED calcVars
  /\ UNCHANGED apiVars

\* the caller makes a further call on the service it holds
NextCall(t) ==
  /\ thr[t].pc = "done"
  /\ thr[t].calls < MaxCalls
  /\ thr' = [thr EXCEPT ![t].pc = "have_svc", ![t].calls = @ + 1,
                        ![t].op = NoName, ![t].ret = NoName, ![t].cause = NoName]
  /\ UNCHANGED <<depth_anything_instance, services, depsOk>>
  /\ UNCHANGED pipelineVars
  /\ UNCHANGED calcVars
  /\ UNCHANGED apiVars

\* the module as imported, in an environment with or without the dependencies
InitDepth ==
  /\ InitPipeline
  /\ depth_anything_instance = 0
  /\ services = <<>>
  /\ thr = [t \in Threads |-> IdleThread]
  /\ depsOk \in BOOLEAN
  /\ InitCalc
  /\ InitApi

NextDepth ==
  \/ \E t \in Threads : GetServiceCheck(t)
  \/ \E t \in Threads : GetServiceCreate(t)
  \/ \E t \in Threads : GetServiceReturn(t)
  \/ \E t \in Threads : PredictEnter(t)
  \/ \E t \in Threads : LoadEnter(t)
  \/ \E t \in Threads : LoadImports(t)
  \/ \E t \in Threads : LoadProcessor(t)
  \/ \E t \in Threads : LoadWeights(t)
  \/ \E t \in Threads : LoadFinish(t)
  \/ \E t \in Threads : PredictInfer(t)

SpecDepth == InitDepth /\ [][NextDepth]_vars

\* one caller that makes a sequence of calls on the service
SoleCaller == {t \in Threads : t = 1}

NextLifecycle ==
  \/ \E t \in SoleCaller : GetServiceCheck(t)
  \/ \E t \in SoleCaller : GetServiceCreate(t)
  \/ \E t \in SoleCaller : GetServiceReturn(t)
  \/ \E t \in SoleCaller : PredictEnter(t)
  \/ \E t \in SoleCaller : LoadEnter(t)
  \/ \E t \in SoleCaller : LoadImports(t)
  \/ \E t \in SoleCaller : LoadProcessor(t)
  \/ \E t \in SoleCaller : LoadWeights(t)
  \/ \E t \in SoleCaller : LoadFinish(t)
  \/ \E t \in SoleCaller : PredictInfer(t)
  \/ \E t \in SoleCaller : UnloadModel(t)
  \/ \E t \in SoleCaller : NextCall(t)

SpecLifecycle == InitDepth /\ [][NextLifecycle]_vars

(* ---------------------- depth calibration and fusion ------------------ *)
\* Depths are fixed-point numbers in hundredths of a metre, weights and
\* confidences in thousandths.  One pixel of the maps stands for all of them:
\* every output is computed pixel by pixel from the pixel's own inputs, the
\* count of valid pixels, and the result of the least-squares fit.
DepthUnit == 100
MilliUnit == 1000
\* DepthFusionService.__init__ defaults
MIN_DEPTH == 10
MAX_DEPTH == 500
WEIGHT_LIDAR == 800
WEIGHT_AI == 200
\* fuse: ai_confidence default
AI_CONFIDENCE_DEFAULT == 700
\* fuse: ai_depth.max() <= 1.5
RELATIVE_MAX == 150
\* fuse: valid_mask.sum() > 100
FUSE_CALIBRATION_OVER == 100
\* predict_metric_depth: valid_count < 100
METRIC_CALIBRATION_MIN == 100
\* predict_metric_depth: np.clip(metric_depth, 0.1, 10.0)
METRIC_MIN_DEPTH == 10
METRIC_MAX_DEPTH == 1000
\* predict_metric_depth: confidence without LiDAR, when insufficient, and the
\* confidence when lstsq returns no residuals
NO_LIDAR_CONFIDENCE == 500
INSUFFICIENT_CONFIDENCE == 300
NO_RESIDUAL_CONFIDENCE == 700
\* _compute_confidence: 0.9, ai_confidence * 0.7, np.clip(.., 0, 0.5)
LIDAR_BASE_CONFIDENCE == 900
AI_CONFIDENCE_FACTOR == 700
PENALTY_MAX == 500

\* np.clip
Clip(x, lo, hi) == IF x < lo THEN lo ELSE IF x > hi THEN hi ELSE x

Abs(x) == IF x < 0 THEN -x ELSE x

\* one pixel of valid_mask in fuse
ValidPixel(l, conf) == l > MIN_DEPTH /\ l < MAX_DEPTH /\ conf >= 1

\* fuse: "if ai_is_relative and valid_mask.sum() > 100"
FuseCalibrates(ai_is_relative, valid_count) ==
  ai_is_relative /\ valid_count > FUSE_CALIBRATION_OVER

\* predict_metric_depth: not "if valid_count < 100"
MetricCalibrates(valid_count) == ~(valid_count < METRIC_CALIBRATION_MIN)

\* _calibrate_to_metric for one pixel.  `fit` is 1 / (scale * relative + offset)
\* as the least-squares fit gives it; when lstsq raises, the except clause
\* returns ai_relative * scale, `scaled`, unclipped.
CalibrateToMetric(how, fit, scaled) ==
  IF how = "lstsq" THEN Clip(fit, MIN_DEPTH, MAX_DEPTH * 2) ELSE scaled

\* a faulty fuse that leaves the weighted sum unclipped
ClipDepth_None(d) == d

\* fuse: np.clip(fused_depth, self.min_depth, self.max_depth)
ClipDepth(d) == Clip(d, MIN_DEPTH, MAX_DEPTH)

\* fuse steps 4 and 5 for one pixel: weights, normalisation by
\* (lidar_weight + ai_weight + 1e-6), weighted sum, clip
FusedDepth(valid, l, ai_metric) ==
  LET lidar_weight == IF valid THEN WEIGHT_LIDAR ELSE 0
      ai_weight == IF valid THEN WEIGHT_AI ELSE MilliUnit
      total_micro == (lidar_weight + ai_weight) * MilliUnit + 1
  IN ClipDepth(((lidar_weight * l + ai_weight * ai_metric) * MilliUnit)
               \div total_micro)

\* a faulty _compute_confidence that returns the confidence unclipped
ClipConfidence_None(c) == c

\* _compute_confidence: return np.clip(confidence, 0.0, 1.0)
ClipConfidence(c) == Clip(c, 0, MilliUnit)

\* _compute_confidence for one pixel; valid_count is valid_mask.sum()
\* a faulty _compute_confidence that subtracts the penalty at every pixel
ComputeConfidence_PenaltyEverywhere(valid, l, ai_metric, ai_confidence, valid_count) ==
  LET base == IF valid THEN LIDAR_BASE_CONFIDENCE
              ELSE (ai_confidence * AI_CONFIDENCE_FACTOR) \div MilliUnit
      relative_diff == (Abs(l - ai_metric) * MilliUnit) \div (IF l > 0 THEN l ELSE 1)
      disagreement_penalty == Clip(relative_diff * 2, 0, PENALTY_MAX)
  IN ClipConfidence(base - disagreement_penalty)

ComputeConfidence(valid, l, ai_metric, ai_confidence, valid_count) ==
  LET base == IF valid THEN LIDAR_BASE_CONFIDENCE
              ELSE (ai_confidence * AI_CONFIDENCE_FACTOR) \div MilliUnit
      relative_diff == (Abs(l - ai_metric) * MilliUnit) \div l
      disagreement_penalty == Clip(relative_diff * 2, 0, PENALTY_MAX)
  IN ClipConfidence(IF valid_count > 0 /\ valid
                    THEN base - disagreement_penalty ELSE base)

\* sample values of one pixel and of the call's other inputs
LidarSamples == {0, 10, 11, 250, 499, 500, 2000}
LidarConfidenceSamples == 0..2
RelativeAiSamples == {0, 50, 150}
MetricAiSamples == {-2000, 151, 700, 2000}
ValidCountSamples == {0, 1, 99, 100, 101}
AiConfidenceSamples == {-500, 0, 300, 700, 2000}
FitSamples == {-2000, 5, 300, 1500}

\* the arguments of one call, with what the fit would give
FusionInputs ==
  { i \in [lidar : LidarSamples, conf : LidarConfidenceSamples,
           ai : RelativeAiSamples \cup MetricAiSamples,
           ai_is_relative : BOOLEAN, valid_count : ValidCountSamples,
           ai_confidence : AiConfidenceSamples,
           how : {"lstsq", "fallback"}, fit : FitSamples] :
      /\ i.ai_is_relative <=> i.ai \in RelativeAiSamples
      /\ ValidPixel(i.lidar, i.conf) => i.valid_count > 0 }

\* DepthFusionService.fuse, for the pixel
Fuse ==
  /\ fusion.stage = "input"
  /\ \E cv2 \in BOOLEAN :
       LET i == fusion.in
           valid == ValidPixel(i.lidar, i.conf)
           calibrated == FuseCalibrates(i.ai_is_relative, i.valid_count)
           ai_metric == IF calibrated
                        THEN CalibrateToMetric(i.how, i.fit, i.fit)
                        ELSE i.ai
       IN fusion' =
            [stage |-> "fused", in |-> i,
             out |-> IF ~cv2 THEN [returned |-> FALSE]
                     ELSE [returned |-> TRUE,
                           calibrated |-> calibrated,
                           ai_metric |-> ai_metric,
                           fused_depth |-> FusedDepth(valid, i.lidar, ai_metric),
                           confidence_map |->
                             ComputeConfidence(valid, i.lidar, ai_metric,
                                               i.ai_confidence, i.valid_count)]]
  /\ UNCHANGED extraction
  /\ UNCHANGED apiVars
  /\ UNCHANGED pipelineVars
  /\ UNCHANGED svcVars

\* DepthAnythingService.predict_metric_depth, for the pixel
PredictMetricDepth ==
  /\ fusion.stage = "input"
  /\ fusion.in.ai_is_relative
  /\ \E predicted \in BOOLEAN, have_lidar \in BOOLEAN, residuals \in {-1, 0, 200, 600} :
       LET i == fusion.in
           result(calibrated, metric, confidence) ==
             [returned |-> TRUE, relative_depth |-> i.ai,
              calibrated |-> calibrated, metric_depth |-> metric,
              confidence |-> confidence]
       IN fusion' =
            [stage |-> "metric", in |-> i,
             out |-> IF ~predicted
                     THEN [returned |-> FALSE, confidence |-> 0]
                     ELSE IF ~have_lidar
                     THEN result(FALSE, None, NO_LIDAR_CONFIDENCE)
                     ELSE IF ~MetricCalibrates(i.valid_count)
                     THEN result(FALSE, None, INSUFFICIENT_CONFIDENCE)
                     ELSE IF i.how # "lstsq"
                     THEN result(FALSE, None, INSUFFICIENT_CONFIDENCE)
                     ELSE result(TRUE, Clip(i.fit, METRIC_MIN_DEPTH, METRIC_MAX_DEPTH),
                                 IF residuals < 0 THEN NO_RESIDUAL_CONFIDENCE
                                 ELSE Clip(MilliUnit - residuals * 2, 0, MilliUnit))]
  /\ UNCHANGED extraction
  /\ UNCHANGED apiVars
  /\ UNCHANGED pipelineVars
  /\ UNCHANGED svcVars

InitFusion ==
  /\ InitPipeline
  /\ InitService
  /\ InitApi
  /\ extraction = NoCall
  /\ \E i \in FusionInputs : fusion = [stage |-> "input", in |-> i]

NextFusion ==
  \/ Fuse
  \/ PredictMetricDepth

SpecFusion == InitFusion /\ [][NextFusion]_vars

(* ====================== point cloud extraction ======================== *)
\* coordinates are in units of half a millimetre, confidences in thousandths

\* PointCloudExtractor.__init__ defaults
MIN_CONFIDENCE == 300
VOXEL_SIZE_DEFAULT == 10

\* the voxel sizes an extractor is built with
VoxelSizes == {VOXEL_SIZE_DEFAULT, 16, 20}

\* the depth map is one row of pixels; intrinsics fx = fy = 4, cx = 1, cy = 0
FocalLength == 4
PrincipalX == 1
ExtractDepthSamples == {8, 12, 16}
ExtractConfidenceSamples == {200, MIN_CONFIDENCE}

\* an optional array: None or the rows
NoArray == [present |-> FALSE, data |-> <<>>]
SomeArray(rows) == [present |-> TRUE, data |-> rows]

\* arr[idx] with an index array (indices count from 1 here)
TakeAt(arr, idx) == [k \in 1..Len(idx) |-> arr[idx[k]]]

\* a faulty _voxel_downsample that leaves an optional array unindexed
TakeOptional_Unindexed(arr, idx) == arr

\* if arr is not None: arr = arr[idx]
TakeOptional(arr, idx) ==
  IF arr.present THEN SomeArray(TakeAt(arr.data, idx)) ELSE arr

\* numpy astype(np.int32) of a quotient: truncation toward zero
TruncDiv(a, b) == IF a >= 0 THEN a \div b ELSE -((-a) \div b)

\* a faulty voxel index that rounds the quotient to the nearest integer
VoxelIndex_Nearest(p, voxel_size) ==
  <<(p[1] + voxel_size \div 2) \div voxel_size,
    (p[2] + voxel_size \div 2) \div voxel_size,
    (p[3] + voxel_size \div 2) \div voxel_size>>

\* voxel_indices = (points / self.voxel_size).astype(np.int32), one row
VoxelIndex(p, voxel_size) ==
  <<TruncDiv(p[1], voxel_size), TruncDiv(p[2], voxel_size), TruncDiv(p[3], voxel_size)>>

\* the order np.unique(axis=0) sorts rows in
RowLess(a, b) ==
  \/ a[1] < b[1]
  \/ a[1] = b[1] /\ a[2] < b[2]
  \/ a[1] = b[1] /\ a[2] = b[2] /\ a[3] < b[3]

RECURSIVE SortByRow(_, _)
SortByRow(rows, S) ==
  IF S = {} THEN <<>>
  ELSE LET m == CHOOSE k \in S : \A j \in S \ {k} : RowLess(rows[k], rows[j])
       IN <<m>> \o SortByRow(rows, S \ {m})

\* _, unique_idx = np.unique(voxel_indices, axis=0, return_index=True):
\* the first occurrence of every distinct row, in the order of the rows
UniqueIndex(rows) ==
  SortByRow(rows, {k \in 1..Len(rows) : \A j \in 1..(k - 1) : rows[j] # rows[k]})

\* np.random.choice(n, m, replace=False): every draw of m distinct indices
Choices(n, m) ==
  {q \in [1..m -> 1..n] : \A a, b \in 1..m : a # b => q[a] # q[b]}

\* a faulty deduplication that keeps every row
DedupIndex_Every(points, voxel_size) == [k \in 1..Len(points) |-> k]

\* the rows np.unique keeps for a cloud at a voxel size
DedupIndex(points, voxel_size) ==
  UniqueIndex([k \in 1..Len(points) |-> VoxelIndex(points[k], voxel_size)])

\* _voxel_downsample: every result it can return
VoxelDownsample(points, colors, normals, voxel_size, max_points) ==
  LET unique_idx == DedupIndex(points, voxel_size)
      p1 == TakeAt(points, unique_idx)
      c1 == TakeOptional(colors, unique_idx)
      n1 == TakeOptional(normals, unique_idx)
  IN IF Len(p1) > max_points
     THEN {[points |-> TakeAt(p1, idx), colors |-> TakeOptional(c1, idx),
            normals |-> TakeOptional(n1, idx), path |-> "sampled"] :
             idx \in Choices(Len(p1), max_points)}
     ELSE {[points |-> p1, colors |-> c1, normals |-> n1, path |-> "voxel"]}

\* mask = confidence >= self.min_confidence, as the indices it selects
MaskIndex(pixels) ==
  SelectSeq([k \in 1..Len(pixels) |-> k], LAMBDA k : pixels[k].conf >= MIN_CONFIDENCE)

\* back-projection of pixel column u (from 0) at depth z, row v = 0
BackProject(u, z) == <<((u - PrincipalX) * z) \div FocalLength, 0, z>>

\* points of the masked pixels
MaskedPoints(pixels) ==
  LET sel == MaskIndex(pixels)
  IN [k \in 1..Len(sel) |-> BackProject(sel[k] - 1, pixels[sel[k]].depth)]

ExtractInputs ==
  UNION { [pixels : [1..w -> [depth : ExtractDepthSamples, conf : ExtractConfidenceSamples]],
           rgb_image : BOOLEAN, cv2 : BOOLEAN,
           voxel_size : VoxelSizes, max_points : 1..MaxExtractPoints] : w \in 1..MaxWidth }

\* PointCloudExtractor.extract
Extract ==
  /\ extraction.stage = "input"
  /\ LET i == extraction.in
         sel == MaskIndex(i.pixels)
         points == MaskedPoints(i.pixels)
         colors == IF i.rgb_image
                   THEN SomeArray([k \in 1..Len(sel) |-> <<"rgb", sel[k] - 1>>])
                   ELSE NoArray
         normals == IF i.cv2
                    THEN SomeArray([k \in 1..Len(sel) |-> <<"normal", sel[k] - 1>>])
                    ELSE NoArray
     IN \E r \in (IF Len(points) > i.max_points
                  THEN VoxelDownsample(points, colors, normals, i.voxel_size, i.max_points)
                  ELSE {[points |-> points, colors |-> colors,
                         normals |-> normals, path |-> "direct"]}) :
          extraction' = [extraction EXCEPT !.stage = "extracted", !.out = r]
  /\ UNCHANGED fusion
  /\ UNCHANGED apiVars
  /\ UNCHANGED pipelineVars
  /\ UNCHANGED svcVars

\* the deduplication of _voxel_downsample on the masked cloud, by an extractor
\* built with voxel size s; the count it leaves is recorded per size
VoxelDedup ==
  /\ extraction.stage = "input"
  /\ \E s \in VoxelSizes :
       /\ \A d \in extraction.dedup : d.voxel_size # s
       /\ extraction' =
            [extraction EXCEPT !.dedup = @ \cup
               {[voxel_size |-> s,
                 count |-> Len(DedupIndex(MaskedPoints(extraction.in.pixels), s))]}]
  /\ UNCHANGED fusion
  /\ UNCHANGED apiVars
  /\ UNCHANGED pipelineVars
  /\ UNCHANGED svcVars

InitExtract ==
  /\ InitPipeline
  /\ InitService
  /\ InitApi
  /\ fusion = NoCall
  /\ \E i \in ExtractInputs :
       extraction = [stage |-> "input", in |-> i, dedup |-> {}, out |-> None]

NextExtract ==
  \/ Extract
  \/ VoxelDedup

SpecExtract == InitExtract /\ [][NextExtract]_vars

(* ========================= progress reporting ========================= *)
\* progress fractions are in thousandths

\* the fractions SimplePipeline.process reports, in order
SIMPLE_PROGRESS == <<0, 100, 400, 600, 900, 1000>>

\* the fractions RawDataProcessor.process reports, in order
RAW_PROGRESS == <<0, 100, 200, 300, 400, 500, 600>>

\* ScanProcessor.STAGES: preprocessing, gaussian_splatting, mesh_extraction,
\* texture_baking, export, with their weights
STAGE_WEIGHTS == <<100, 400, 250, 150, 100>>
EXPORT_STAGE == Len(STAGE_WEIGHTS)

\* the fractions each stage's service reports within its stage; for export,
\* i / len(output_formats) for the three default formats
StageReports ==
  << <<200, 500, 700, 900, 1000>>,
     <<0, 50, 100, 500, 950, 1000>>,
     <<0, 300, 500, 700, 850, 950, 1000>>,
     <<0, 150, 250, 400, 750, 850, 900, 950, 1000>>,
     <<0, 333, 666>> >>

\* _process_raw_scan_async: on_progress(0.5, "gaussian_splatting", ...)
RAW_TASK_HANDOVER == 500
\* lambda p, s, m=None: on_progress(0.5 + p * 0.5, s, m)
RAW_TASK_OFFSET == 500
RAW_TASK_SCALE == 500
\* _update_scan_status(scan_id, "completed", progress=1.0, ...)
COMPLETED_PROGRESS == 1000

RECURSIVE StageBase(_)
\* base_progress = sum(s.weight for s in self.STAGES[:stage_idx])
StageBase(k) == IF k <= 1 THEN 0 ELSE StageBase(k - 1) + STAGE_WEIGHTS[k - 1]

\* update_progress: current_progress = base_progress + stage_progress * weight
UpdateProgress(k, stage_progress) ==
  StageBase(k) + (stage_progress * STAGE_WEIGHTS[k]) \div MilliUnit

\* the stages process_scan runs under the options
StageEnabled(opts, k) ==
  CASE k = 2 -> opts.gaussian_splatting
    [] k = 3 -> opts.mesh_extraction
    [] k = 4 -> opts.texture_baking /\ opts.mesh_extraction
    [] OTHER -> TRUE

\* the update_progress calls of one stage: 0.0, the service's own, 1.0
StageCalls(k) == <<0>> \o StageReports[k] \o <<MilliUnit>>

RECURSIVE ScanPlan(_, _)
\* the fractions process_scan delivers from stage k on
ScanPlan(opts, k) ==
  IF k > EXPORT_STAGE THEN <<>>
  ELSE (IF StageEnabled(opts, k)
        THEN [j \in 1..Len(StageCalls(k)) |-> UpdateProgress(k, StageCalls(k)[j])]
        ELSE <<>>) \o ScanPlan(opts, k + 1)

\* the rescaling of the raw-scan task
Rescale(p) == RAW_TASK_OFFSET + (p * RAW_TASK_SCALE) \div MilliUnit

ProgressOptions ==
  [gaussian_splatting : BOOLEAN, mesh_extraction : BOOLEAN, texture_baking : BOOLEAN]

\* a report reaches the sink
Deliver(p) == progress' = [progress EXCEPT !.log = Append(@, p)]

\* SimplePipeline.process: the next _report_progress
SimpleReport ==
  /\ progress.run = "simple" /\ progress.status = "running"
  /\ Len(progress.log) < Len(SIMPLE_PROGRESS)
  /\ Deliver(SIMPLE_PROGRESS[Len(progress.log) + 1])
  /\ UNCHANGED <<pipelineVars, svcVars, calcVars, wsVars, uploadVars, scanVars>>

\* ScanProcessor.process_scan: the next update_progress
ScanReport ==
  /\ progress.run = "scan" /\ progress.status = "running"
  /\ Len(progress.log) < Len(ScanPlan(progress.opts, 1))
  /\ Deliver(ScanPlan(progress.opts, 1)[Len(progress.log) + 1])
  /\ UNCHANGED <<pipelineVars, svcVars, calcVars, wsVars, uploadVars, scanVars>>

\* the raw-scan task, in RawDataProcessor.process: the next progress_callback
RawTaskRawReport ==
  /\ progress.run = "raw_task" /\ progress.status = "running"
  /\ Len(progress.log) < Len(RAW_PROGRESS)
  /\ Deliver(RAW_PROGRESS[Len(progress.log) + 1])
  /\ UNCHANGED <<pipelineVars, svcVars, calcVars, wsVars, uploadVars, scanVars>>

\* the raw-scan task between the two processors
RawTaskHandOver ==
  /\ progress.run = "raw_task" /\ progress.status = "running"
  /\ Len(progress.log) = Len(RAW_PROGRESS)
  /\ Deliver(RAW_TASK_HANDOVER)
  /\ UNCHANGED <<pipelineVars, svcVars, calcVars, wsVars, uploadVars, scanVars>>

\* the raw-scan task, in process_scan: the next update_progress, rescaled
RawTaskScanReport ==
  /\ progress.run = "raw_task" /\ progress.status = "running"
  /\ LET done == Len(progress.log) - Len(RAW_PROGRESS) - 1
         plan == ScanPlan(progress.opts, 1)
     IN /\ done >= 0 /\ done < Len(plan)
        /\ Deliver(Rescale(plan[done + 1]))
  /\ UNCHANGED <<pipelineVars, svcVars, calcVars, wsVars, uploadVars, scanVars>>

\* every report of the run has been made
PlanLength ==
  CASE progress.run = "simple" -> Len(SIMPLE_PROGRESS)
    [] progress.run = "scan" -> Len(ScanPlan(progress.opts, 1))
    [] OTHER -> Len(RAW_PROGRESS) + 1 + Len(ScanPlan(progress.opts, 1))

\* the run returns; the worker tasks then record progress 1.0
RunCompletes ==
  /\ progress.status = "running"
  /\ Len(progress.log) = PlanLength
  /\ progress' = [progress EXCEPT
        !.status = "completed",
        !.log = IF progress.run = "simple" THEN @ ELSE Append(@, COMPLETED_PROGRESS)]
  /\ UNCHANGED <<pipelineVars, svcVars, calcVars, wsVars, uploadVars, scanVars>>

\* an exception ends the run: nothing more is reported
RunFails ==
  /\ progress.status = "running"
  /\ Len(progress.log) < PlanLength
  /\ progress' = [progress EXCEPT !.status = "failed"]
  /\ UNCHANGED <<pipelineVars, svcVars, calcVars, wsVars, uploadVars, scanVars>>

InitProgress ==
  /\ InitPipeline
  /\ InitService
  /\ InitCalc
  /\ WsIdle
  /\ UploadIdle
  /\ ScanIdle
  /\ \E r \in {"simple", "scan", "raw_task"}, o \in ProgressOptions :
       progress = [run |-> r, opts |-> o, log |-> <<>>, status |-> "running"]

NextProgress ==
  \/ SimpleReport
  \/ ScanReport
  \/ RawTaskRawReport
  \/ RawTaskHandOver
  \/ RawTaskScanReport
  \/ RunCompletes
  \/ RunFails

SpecProgress == InitProgress /\ [][NextProgress]_vars

(* ======================== diagnostic decoder ========================== *)
\* debug_lraw: SIMD_STRIDE, the bytes per vertex, normal and face
SIMD_STRIDE == 16
\* debug_lraw: intrinsics = f.read(48)
DEBUG_INTRINSICS_SIZE == 48

\* bytes debug_lraw consumes for a complete mesh anchor
DebugMeshLen(V, F, class_flag) ==
  UUID_SIZE + TRANSFORM_SIZE + U32_SIZE + U32_SIZE + 1
  + V * SIMD_STRIDE + V * SIMD_STRIDE + F * SIMD_STRIDE
  + (IF class_flag # 0 THEN F ELSE 0)

\* bytes debug_lraw consumes of a texture frame before its image payload
DEBUG_TEXTURE_FIXED ==
  UUID_SIZE + TIMESTAMP_SIZE + TRANSFORM_SIZE + DEBUG_INTRINSICS_SIZE
  + U32_SIZE + U32_SIZE + U32_SIZE

(* ====================== the websocket manager ========================= *)

\* list.remove(x): the first occurrence goes
RECURSIVE ListRemove(_, _)
ListRemove(list, x) ==
  IF list = <<>> THEN <<>>
  ELSE IF Head(list) = x THEN Tail(list)
  ELSE <<Head(list)>> \o ListRemove(Tail(list), x)

InList(list, x) == \E k \in 1..Len(list) : list[k] = x

\* WebSocketManager.disconnect, on the dictionary
DisconnectOp(conns, scan, ws) ==
  IF scan \notin DOMAIN conns THEN conns
  ELSE LET list == IF InList(conns[scan], ws)
                   THEN ListRemove(conns[scan], ws) ELSE conns[scan]
       IN IF list = <<>> THEN DictDel(conns, scan)
          ELSE DictSet(conns, scan, list)

\* broadcast's second loop: disconnect every socket whose send failed
RECURSIVE DisconnectAll(_, _, _)
DisconnectAll(conns, scan, failed) ==
  IF failed = <<>> THEN conns
  ELSE DisconnectAll(DisconnectOp(conns, scan, Head(failed)), scan, Tail(failed))

SeqRange(s) == {s[k] : k \in 1..Len(s)}

\* WebSocketManager.connect, after the awaited accept
Connect(scan, ws) ==
  /\ sockets[ws] = "connecting"
  /\ sockets' = [sockets EXCEPT ![ws] = "connected"]
  /\ connections' =
       DictSet(connections, scan,
               Append(IF scan \in DOMAIN connections THEN connections[scan]
                      ELSE <<>>, ws))
  /\ UNCHANGED bcast
  /\ UNCHANGED <<pipelineVars, svcVars, calcVars, progress, uploadVars, scanVars>>

\* the endpoint of a connection sees WebSocketDisconnect and calls
\* disconnect(); a broadcast suspended in a send iterates the same list object
Disconnect(scan, ws) ==
  /\ sockets[ws] = "connected"
  /\ scan \in DOMAIN connections /\ InList(connections[scan], ws)
  /\ sockets' = [sockets EXCEPT ![ws] = "disconnected"]
  /\ connections' = DisconnectOp(connections, scan, ws)
  /\ bcast' =
       IF bcast.state = "sending" /\ bcast.scan = scan /\ ~bcast.detached
       THEN [bcast EXCEPT !.stayed = @ \ {ws},
                          !.detached = scan \notin DOMAIN connections']
       ELSE bcast
  /\ UNCHANGED <<pipelineVars, svcVars, calcVars, progress, uploadVars, scanVars>>

\* the list the for loop of broadcast iterates: the list object it started
\* on, which disconnect() empties before it deletes the key
IteratedList(b, conns) == IF b.detached THEN <<>> ELSE conns[b.scan]

\* the for loop takes its next element, at index idx, and awaits the send;
\* or it is exhausted, the failed sockets are disconnected and broadcast returns
Advance(b) ==
  LET list == IteratedList(b, connections)
  IN IF b.idx < Len(list)
     THEN /\ bcast' = [b EXCEPT !.state = "sending", !.idx = @ + 1,
                                !.cur = list[b.idx + 1]]
          /\ UNCHANGED connections
     ELSE /\ bcast' = [b EXCEPT !.state = "done", !.cur = 0,
                                !.stayed = @ \ SeqRange(b.disconnected)]
          /\ connections' = DisconnectAll(connections, b.scan, b.disconnected)

\* WebSocketManager.broadcast up to its first await
BroadcastBegin(scan) ==
  /\ bcast.state = "idle"
  /\ IF scan \notin DOMAIN connections
     THEN /\ bcast' = [BcastIdle EXCEPT !.state = "done", !.scan = scan]
          /\ UNCHANGED connections
     ELSE Advance([BcastIdle EXCEPT !.scan = scan,
                                    !.stayed = SeqRange(connections[scan])])
  /\ UNCHANGED sockets
  /\ UNCHANGED <<pipelineVars, svcVars, calcVars, progress, uploadVars, scanVars>>

\* the awaited send_json returns
SendOk ==
  /\ bcast.state = "sending"
  /\ sockets[bcast.cur] = "connected"
  /\ Advance([bcast EXCEPT !.delivered = @ \cup {bcast.cur}])
  /\ UNCHANGED sockets
  /\ UNCHANGED <<pipelineVars, svcVars, calcVars, progress, uploadVars, scanVars>>

\* the awaited send_json raises
SendFails ==
  /\ bcast.state = "sending"
  /\ sockets' = [sockets EXCEPT ![bcast.cur] = "disconnected"]
  /\ Advance([bcast EXCEPT !.disconnected = Append(@, bcast.cur)])
  /\ UNCHANGED <<pipelineVars, svcVars, calcVars, progress, uploadVars, scanVars>>

\* the caller of broadcast goes on
BroadcastReturn ==
  /\ bcast.state = "done"
  /\ bcast' = BcastIdle
  /\ UNCHANGED <<connections, sockets>>
  /\ UNCHANGED <<pipelineVars, svcVars, calcVars, progress, uploadVars, scanVars>>

InitWs ==
  /\ InitPipeline
  /\ InitService
  /\ InitCalc
  /\ InitApi

NextWs ==
  \/ \E scan \in ScanIds, ws \in Sockets : Connect(scan, ws)
  \/ \E scan \in ScanIds, ws \in Sockets : Disconnect(scan, ws)
  \/ \E scan \in ScanIds : BroadcastBegin(scan)
  \/ SendOk
  \/ SendFails
  \/ BroadcastReturn

SpecWs == InitWs /\ [][NextWs]_vars

(* ======================= chunked upload sessions ====================== *)

\* the request bodies of the model
Bodies == {"x", "y"}

\* fileSize and chunkSize of an init request, X-Chunk-Index of a chunk
FileSizes == 0..MaxFileSize

ChunkSizes == 1..MaxFileSize

ChunkIndexes == 0..(MaxFileSize - 1)

\* X-Upload-Id: 0 is an absent header, the others are ids that may have been
\* handed out
UploadIdHeaders == 0..MaxUploads

\* total_chunks = (fileSize + chunkSize - 1) // chunkSize
TotalChunks(file_size, chunk_size) == (file_size + chunk_size - 1) \div chunk_size

\* position in _upload_sessions of the session with this id, 0 if none
SessionById(sessions, upload_id) ==
  IF \E k \in 1..Len(sessions) : sessions[k].upload_id = upload_id
  THEN CHOOSE k \in 1..Len(sessions) : sessions[k].upload_id = upload_id
  ELSE 0

\* position of the first session, in insertion order, of this scan; 0 if none
SessionByScan(sessions, scan) ==
  IF \E k \in 1..Len(sessions) : sessions[k].scan_id = scan
  THEN CHOOSE k \in 1..Len(sessions) :
         /\ sessions[k].scan_id = scan
         /\ \A j \in 1..(k - 1) : sessions[j].scan_id # scan
  ELSE 0

\* del _upload_sessions[upload_id], for the session at position k
DelSession(sessions, k) ==
  [j \in 1..(Len(sessions) - 1) |-> IF j < k THEN sessions[j] ELSE sessions[j + 1]]

\* create_scan: the scan is stored with status "created"
CreateScan(scan) ==
  /\ scan \notin DOMAIN scans
  /\ scans' = DictSet(scans, scan, "created")
  /\ UNCHANGED <<handlers, tasks>>
  /\ UNCHANGED <<pipelineVars, svcVars, calcVars, progress, wsVars, uploadVars>>

\* init_chunked_upload
InitChunkedUpload(scan, file_size, chunk_size) ==
  /\ upload_count < MaxUploads
  /\ IF scan \notin DOMAIN scans
     THEN /\ reply' = [op |-> "init", scan |-> scan, status |-> "404"]
          /\ UNCHANGED <<upload_sessions, upload_count>>
     ELSE /\ upload_count' = upload_count + 1
          /\ upload_sessions' =
               Append(upload_sessions,
                      [upload_id |-> upload_count + 1,
                       scan_id |-> scan,
                       total_chunks |-> TotalChunks(file_size, chunk_size),
                       uploaded_chunks |-> <<>>,
                       chunks_data |-> EmptyDict])
          /\ reply' = [op |-> "init", scan |-> scan, status |-> "initialized"]
  /\ UNCHANGED scan_files
  /\ UNCHANGED <<pipelineVars, svcVars, calcVars, progress, wsVars, scanVars>>

\* the session upload_chunk stores into: the one X-Upload-Id names if there is
\* one, else the first of the scan in the path
ChunkSession(sessions, scan, x_upload_id) ==
  IF x_upload_id # 0 /\ SessionById(sessions, x_upload_id) # 0
  THEN SessionById(sessions, x_upload_id)
  ELSE SessionByScan(sessions, scan)

\* upload_chunk
UploadChunk(scan, x_chunk_index, body, x_upload_id) ==
  LET k == ChunkSession(upload_sessions, scan, x_upload_id)
  IN /\ IF k = 0
        THEN /\ reply' = [op |-> "chunk", scan |-> scan, status |-> "400"]
             /\ UNCHANGED upload_sessions
        ELSE /\ upload_sessions' =
                  [upload_sessions EXCEPT
                     ![k].chunks_data =
                        DictSet(@, x_chunk_index, body),
                     ![k].uploaded_chunks =
                        IF InList(@, x_chunk_index) THEN @
                        ELSE Append(@, x_chunk_index)]
             /\ reply' = [op |-> "chunk", scan |-> scan, status |-> "chunk_received"]
     /\ UNCHANGED <<upload_count, scan_files>>
     /\ UNCHANGED <<pipelineVars, svcVars, calcVars, progress, wsVars, scanVars>>

\* the file finalize assembles: chunks_data[0] .. chunks_data[total_chunks-1]
Assemble(session) ==
  [i \in 1..session.total_chunks |-> session.chunks_data[i - 1]]

\* finalize_chunked_upload
FinalizeChunkedUpload(scan) ==
  LET k == SessionByScan(upload_sessions, scan)
  IN /\ IF k = 0 \/ (k # 0 /\ SeqRange(upload_sessions[k].uploaded_chunks)
                                 # 0..(upload_sessions[k].total_chunks - 1))
        THEN /\ reply' = [op |-> "finalize", scan |-> scan, status |-> "400"]
             /\ UNCHANGED <<upload_sessions, scan_files, scans>>
        ELSE /\ scan_files' = DictSet(scan_files, scan, Assemble(upload_sessions[k]))
             /\ scans' = [scans EXCEPT ![scan] = "uploaded"]
             /\ upload_sessions' = DelSession(upload_sessions, k)
             /\ reply' = [op |-> "finalize", scan |-> scan, status |-> "finalized"]
     /\ UNCHANGED <<upload_count, handlers, tasks>>
     /\ UNCHANGED <<pipelineVars, svcVars, calcVars, progress, wsVars>>

\* cancel_chunked_upload
CancelChunkedUpload(scan) ==
  LET k == SessionByScan(upload_sessions, scan)
  IN /\ IF k = 0
        THEN /\ reply' = [op |-> "cancel", scan |-> scan, status |-> "not_found"]
             /\ UNCHANGED upload_sessions
        ELSE /\ upload_sessions' = DelSession(upload_sessions, k)
             /\ reply' = [op |-> "cancel", scan |-> scan, status |-> "cancelled"]
     /\ UNCHANGED <<upload_count, scan_files>>
     /\ UNCHANGED <<pipelineVars, svcVars, calcVars, progress, wsVars, scanVars>>

InitUpload ==
  /\ InitPipeline
  /\ InitService
  /\ InitCalc
  /\ InitApi

NextUpload ==
  \/ \E scan \in ScanIds : CreateScan(scan)
  \/ \E scan \in ScanIds, fs \in FileSizes, cs \in ChunkSizes :
       InitChunkedUpload(scan, fs, cs)
  \/ \E scan \in ScanIds, i \in ChunkIndexes, b \in Bodies, u \in UploadIdHeaders :
       UploadChunk(scan, i, b, u)
  \/ \E scan \in ScanIds : FinalizeChunkedUpload(scan)
  \/ \E scan \in ScanIds : CancelChunkedUpload(scan)

SpecUpload == InitUpload /\ [][NextUpload]_vars

(* ================= start_processing and its background task =========== *)

\* upload_scan_data, by a client that uploads once after creating the scan
UploadScanData(scan) ==
  /\ scan \in DOMAIN scans /\ scans[scan] = "created"
  /\ scans' = [scans EXCEPT ![scan] = "uploaded"]
  /\ UNCHANGED <<handlers, tasks>>
  /\ UNCHANGED <<pipelineVars, svcVars, calcVars, progress, wsVars, uploadVars>>

\* start_processing is called and awaits storage.get_scan_metadata
StartProcessing(r, scan) ==
  /\ handlers[r].pc = "free"
  /\ handlers' = [handlers EXCEPT ![r] = [pc |-> "loading", scan |-> scan,
                                           status |-> NoName]]
  /\ UNCHANGED <<scans, tasks>>
  /\ UNCHANGED <<pipelineVars, svcVars, calcVars, progress, wsVars, uploadVars>>

\* the statuses start_processing accepts
Processable == {"uploaded", "failed"}

\* the metadata file has been read: the status check, then scan_data is set to
\* "processing" and the handler awaits storage.save_scan_metadata
StartLoaded(r) ==
  /\ handlers[r].pc = "loading"
  /\ handlers' =
       [handlers EXCEPT ![r] =
          IF handlers[r].scan \notin DOMAIN scans
          THEN [@ EXCEPT !.pc = "replied", !.status = "404"]
          ELSE IF scans[handlers[r].scan] \notin Processable
          THEN [@ EXCEPT !.pc = "replied", !.status = "400"]
          ELSE [@ EXCEPT !.pc = "saving", !.status = "processing"]]
  /\ UNCHANGED <<scans, tasks>>
  /\ UNCHANGED <<pipelineVars, svcVars, calcVars, progress, wsVars, uploadVars>>

\* a task background_tasks.add_task has scheduled
NewTask(scan) ==
  [scan |-> scan, pc |-> "scheduled", reports |-> 0, status |-> NoName]

\* the metadata file has been written; process_scan_task is scheduled and the
\* response is sent
StartSaved(r) ==
  /\ handlers[r].pc = "saving"
  /\ scans' = [scans EXCEPT ![handlers[r].scan] = handlers[r].status]
  /\ tasks' = Append(tasks, NewTask(handlers[r].scan))
  /\ handlers' = [handlers EXCEPT ![r].pc = "replied",
                                  ![r].status = "processing_started"]
  /\ UNCHANGED <<pipelineVars, svcVars, calcVars, progress, wsVars, uploadVars>>

\* process_scan_task starts to run
TaskStart(t) ==
  /\ tasks[t].pc = "scheduled"
  /\ tasks' = [tasks EXCEPT ![t].pc = "running"]
  /\ UNCHANGED <<scans, handlers>>
  /\ UNCHANGED <<pipelineVars, svcVars, calcVars, progress, wsVars, uploadVars>>

\* on_progress: scan_data has been read from the metadata file
TaskProgressLoaded(t) ==
  /\ tasks[t].pc = "running" /\ tasks[t].reports < MaxReports
  /\ tasks' = [tasks EXCEPT ![t].pc = "reporting",
                            ![t].reports = @ + 1,
                            ![t].status = scans[tasks[t].scan]]
  /\ UNCHANGED <<scans, handlers>>
  /\ UNCHANGED <<pipelineVars, svcVars, calcVars, progress, wsVars, uploadVars>>

\* on_progress: scan_data, with the status it was read with, has been written
TaskProgressSaved(t) ==
  /\ tasks[t].pc = "reporting"
  /\ scans' = [scans EXCEPT ![tasks[t].scan] = tasks[t].status]
  /\ tasks' = [tasks EXCEPT ![t].pc = "running"]
  /\ UNCHANGED handlers
  /\ UNCHANGED <<pipelineVars, svcVars, calcVars, progress, wsVars, uploadVars>>

\* processor.process_scan has returned, or an exception has reached the
\* handler of process_scan_task: the final status is written
TaskEnds(t, ok) ==
  /\ tasks[t].pc = "running"
  /\ scans' = [scans EXCEPT ![tasks[t].scan] = IF ok THEN "completed" ELSE "failed"]
  /\ tasks' = [tasks EXCEPT ![t].pc = "done",
                            ![t].status = IF ok THEN "completed" ELSE "failed"]
  /\ UNCHANGED handlers
  /\ UNCHANGED <<pipelineVars, svcVars, calcVars, progress, wsVars, uploadVars>>

InitScan ==
  /\ InitPipeline
  /\ InitService
  /\ InitCalc
  /\ InitApi

NextScan ==
  \/ \E scan \in ScanIds : CreateScan(scan)
  \/ \E scan \in ScanIds : UploadScanData(scan)
  \/ \E r \in Requests, scan \in ScanIds : StartProcessing(r, scan)
  \/ \E r \in Requests : StartLoaded(r)
  \/ \E r \in Requests : StartSaved(r)
  \/ \E t \in 1..Len(tasks) : TaskStart(t)
  \/ \E t \in 1..Len(tasks) : TaskProgressLoaded(t)
  \/ \E t \in 1..Len(tasks) : TaskProgressSaved(t)
  \/ \E t \in 1..Len(tasks), ok \in BOOLEAN : TaskEnds(t, ok)

SpecScan == InitScan /\ [][NextScan]_vars

(* ============================== claims ================================ *)

\* every decoded record holds as many values as its count fields declare
RecordsComplete ==
  /\ \A i \in 1..Len(mesh_anchors) :
       /\ mesh_anchors[i].nverts = mesh_anchors[i].declV
       /\ mesh_anchors[i].nnormals = mesh_anchors[i].declV
       /\ Len(mesh_anchors[i].faces) = mesh_anchors[i].declF
       /\ mesh_anchors[i].nclass \in {-1, mesh_anchors[i].declV}
  /\ \A i \in 1..Len(texture_frames) :
       texture_frames[i].imageLen = texture_frames[i].declLen
  /\ \A i \in 1..Len(depth_frames) :
       flags.conf => depth_frames[i].nconf # -1

\* no count field of a decoded record holds the corrupt sample
PlausibleCounts ==
  /\ \A i \in 1..Len(mesh_anchors) : mesh_anchors[i].declV # CorruptCount
  /\ \A i \in 1..Len(texture_frames) : texture_frames[i].declLen # CorruptCount

\* C1: decoding a well-formed file cut before its declared end fails; it never
\* returns records that silently hold fewer values than declared.  (Stated
\* here in the weaker form "fails, or at least every returned record is
\* complete", with any raised exception counted as the failure.)
C1_TruncatedDecodeFails ==
  (eof /\ PlausibleCounts /\ pc = "parsed") => RecordsComplete

\* C2: no read is sized by a declared count above the sanity ceiling: the
\* decoder rejects the count first.
C2_ImplausibleCountRejected == largestCount <= SanityCeiling

\* C3: when decoding fails, nothing decoded is exposed and no artifact file is
\* written (at most the empty scan directory exists); RawDataProcessor.process raises, SimplePipeline.process returns
\* status "error" without point-cloud, mesh or export paths.
C3_DecodeFailureAbortsAll ==
  parseStatus = "error" =>
    /\ lraw_data = None
    /\ artifacts \ Directories = {}
    /\ artifacts \subseteq {ScanDir}
    /\ mesh = None /\ enhanced = None /\ pc_path = NoName
    /\ pc \in {"parse_failed", "done"}
    /\ pc = "done" =>
         IF caller = "raw"
         THEN outcome.kind = "raised" /\ outcome.error = parseError
         ELSE /\ outcome.status = "error"
              /\ outcome.pointcloud_path = NoName
              /\ outcome.mesh_path = NoName
              /\ outcome.exports = {}

\* a decode that failed in the depth frames, after anchors and a texture frame
\* had been decoded, and SimplePipeline.process has answered
C3_Witness ==
  /\ parseStatus = "error" /\ pc = "done" /\ caller = "simple"
  /\ mesh_anchors # <<>> /\ texture_frames # <<>>
  /\ counts.depth > 0

\* C4: a file whose first four bytes are not "LRAW" (or that is shorter) fails
\* with the invalid-magic error before any count is unpacked or record read.
\* (parse_lraw has looked at the header once it has raised or unpacked.)
C4_InvalidMagicFirst ==
  ((parseStatus = "error" \/ countsRead) /\ hdrMagic # LRAW_MAGIC) =>
    /\ parseStatus = "error"
    /\ parseError = "InvalidMagic"
    /\ ~countsRead
    /\ mesh_anchors = <<>> /\ texture_frames = <<>> /\ depth_frames = <<>>
    /\ lraw_data = None

\* an input shorter than four bytes was refused as invalid magic
C4_Witness ==
  /\ pc = "done" /\ Len(hdrMagic) = 3 /\ parseError = "InvalidMagic"

\* the records of a finished decode, in stream order
AllRecords == mesh_anchors \o texture_frames \o depth_frames

\* C5: a successful decode returns exactly mesh_count, texture_count and
\* depth_count records, read in that order, each starting where the previous
\* one ended (the first one right after the 32-byte header).
C5_CountsAndOrder ==
  parseStatus = "ok" =>
    /\ Len(lraw_data.mesh_anchors) = counts.mesh
    /\ Len(lraw_data.texture_frames) = counts.tex
    /\ Len(lraw_data.depth_frames) = counts.depth
    /\ AllRecords # <<>> => AllRecords[1].start = HEADER_SIZE
    /\ \A i \in 1..(Len(AllRecords) - 1) :
         AllRecords[i + 1].start = AllRecords[i].stop
    /\ AllRecords # <<>> => AllRecords[Len(AllRecords)].stop = pos

\* a complete file with the most anchors, a texture frame and a depth frame
C5_Witness ==
  /\ parseStatus = "ok" /\ ~eof
  /\ counts.mesh = MaxMesh /\ counts.tex > 0 /\ counts.depth > 0

\* a uint32 below the natural number n
U32Below(a, n) == a.hi = 0 /\ a.lo < n

\* every original face index of every anchor is below that anchor's vertex count
IndicesValid(anchors) ==
  \A j \in 1..Len(anchors) : \A k \in 1..Len(anchors[j].faces) : \A c \in 1..3 :
    U32Below(anchors[j].faces[k][c], anchors[j].nverts)

\* merged = orig + s exactly, as natural numbers (s below 2^16)
ExactSum(merged, orig, s) ==
  /\ merged.lo = (orig.lo + s) % Half
  /\ merged.hi = orig.hi + ((orig.lo + s) \div Half)

\* merged = (orig + s) mod 2^32
WrappedSum(merged, orig, s) ==
  /\ merged.lo = (orig.lo + s) % Half
  /\ merged.hi = (orig.hi + ((orig.lo + s) \div Half)) % Half

\* C6 as claimed: every merged face index equals its original index plus the
\* vertex counts of the earlier anchors; the merged vertex count is the sum of
\* the anchors' counts; valid indices stay valid.
C6_ExactOffsets ==
  mesh # None =>
    LET anchors == lraw_data.mesh_anchors IN
    /\ \A j \in 1..Len(anchors) : \A k \in 1..Len(anchors[j].faces) : \A c \in 1..3 :
         ExactSum(mesh.all_faces[j][k][c], anchors[j].faces[k][c],
                  SumVerts(SubSeq(anchors, 1, j - 1)))
    /\ mesh.nverts = SumVerts(anchors)

\* C6 as amended: the sum is taken modulo 2^32 (the indices are uint32), so it
\* is the exact sum whenever that is below 2^32; the merged vertex count is the
\* sum of the anchors' counts; indices valid in their anchor are valid, and
\* exactly offset, in the merged mesh.
C6_OffsetsMod32 ==
  mesh # None =>
    LET anchors == lraw_data.mesh_anchors IN
    /\ Len(mesh.all_faces) = Len(anchors)
    /\ \A j \in 1..Len(anchors) :
         /\ Len(mesh.all_faces[j]) = Len(anchors[j].faces)
         /\ \A k \in 1..Len(anchors[j].faces) : \A c \in 1..3 :
              /\ WrappedSum(mesh.all_faces[j][k][c], anchors[j].faces[k][c],
                            SumVerts(SubSeq(anchors, 1, j - 1)))
              /\ U32Below(anchors[j].faces[k][c], anchors[j].nverts) =>
                   ExactSum(mesh.all_faces[j][k][c], anchors[j].faces[k][c],
                            SumVerts(SubSeq(anchors, 1, j - 1)))
    /\ mesh.nverts = SumVerts(anchors)
    /\ IndicesValid(anchors) =>
         \A j \in 1..Len(anchors) : \A k \in 1..Len(mesh.all_faces[j]) :
           \A c \in 1..3 : U32Below(mesh.all_faces[j][k][c], mesh.nverts)

\* two anchors merged, the first with vertices, the second with a valid face
C6_Witness ==
  /\ mesh # None
  /\ Len(lraw_data.mesh_anchors) = 2
  /\ lraw_data.mesh_anchors[1].nverts > 0
  /\ lraw_data.mesh_anchors[2].faces # <<>>
  /\ IndicesValid(lraw_data.mesh_anchors)


\* _enhance_depth_with_ai has returned after entering its loop
EnhanceReturned ==
  /\ pc \in {"raw_result", "simple_pc", "simple_mesh", "done"}
  /\ frameLog # <<>>

\* the frames whose points are in the merged cloud the function returned
MergedFrames ==
  IF enhanced = None THEN {}
  ELSE {enhanced.merged[i].frame : i \in 1..Len(enhanced.merged)}

\* the frames the returned statistics name
RecordedFrames ==
  IF enhanced = None THEN {}
  ELSE {enhanced.fusion_stats[i].frame : i \in 1..Len(enhanced.fusion_stats)}

\* the frames the loop skipped with "continue"
SkippedFrames ==
  {frameLog[i].frame :
     i \in {k \in 1..Len(frameLog) : frameLog[k].outcome \in SkippedOutcomes}}

\* C7: a failure in one texture frame affects only that frame: every frame of
\* the capture is still visited, and the points of every frame that went
\* through are part of the merged enhanced cloud.
C7_FrameFailureIsolated ==
  EnhanceReturned =>
    /\ Len(frameLog) = Len(lraw_data.texture_frames)
    /\ \A i \in 1..Len(frameLog) :
         (frameLog[i].outcome = "ok" /\ frameLog[i].n > 0) =>
           frameLog[i].frame \in MergedFrames

\* C8: every frame skipped by a per-frame failure is recorded in the returned
\* statistics, so that processed plus recorded-as-skipped frames is the
\* number of texture frames.
C8_SkippedFramesRecorded ==
  EnhanceReturned =>
    /\ SkippedFrames \subseteq RecordedFrames
    /\ enhanced # None =>
         enhanced.frames_processed + Cardinality(SkippedFrames \cap RecordedFrames)
           = Len(lraw_data.texture_frames)


\* C9: the model is initialised at most once on every service object, whatever
\* the interleaving of the callers, and every caller of
\* get_depth_anything_service holds the same instance.
C9_InitializedOnce ==
  /\ \A s \in 1..Len(services) : services[s].inits <= 1
  /\ \A t1, t2 \in Threads :
       (thr[t1].svc # 0 /\ thr[t2].svc # 0) => thr[t1].svc = thr[t2].svc

\* C10: the value predict returns when the model could not be loaded differs
\* from the value it returns when inference raised on a loaded model.
C10_UnavailableDistinct ==
  \A t1, t2 \in Threads :
    ( /\ thr[t1].op = "predict" /\ thr[t1].cause = "unavailable"
      /\ thr[t2].op = "predict" /\ thr[t2].cause = "compute_failure" )
    => thr[t1].ret # thr[t2].ret

\* C11: a progress callback that raises never aborts processing: no run ends
\* with the callback's exception as its outcome.
C11_NotificationFailureHarmless ==
  (pc = "done" /\ notifyFailed) =>
    ~(outcome.kind = "raised" /\ outcome.error = "CallbackError")

\* the loop visited every texture frame and the AI gave nothing for any of
\* them: predict returned None, or fuse returned None
AllFramesUnavailable ==
  /\ frameLog # <<>>
  /\ Len(frameLog) = Len(lraw_data.texture_frames)
  /\ \A i \in 1..Len(frameLog) :
       frameLog[i].outcome \in {"predict_none", "fuse_none"}

\* C12: when predict or fuse returns None for every frame, the run still ends
\* with the LiDAR-only result: RawDataProcessor.process returns its mesh, point
\* cloud, textures and depth outputs without AI entries; SimplePipeline.process
\* uses the mesh-based point cloud and reports ai_enhanced = false.  (A failure
\* of the later mesh stage on its own is not held against the claim.)
C12_LidarOnlyFallback ==
  (pc = "done" /\ AllFramesUnavailable) =>
    /\ enhanced = None
    /\ "enhanced_pointcloud.ply" \notin artifacts
    /\ IF caller = "raw"
       THEN /\ outcome.kind = "returned"
            /\ outcome.ai_enhanced = None
            /\ outcome.mesh_path = "reconstructed_mesh.ply"
            /\ outcome.pointcloud_path = "pointcloud.ply"
            /\ {"reconstructed_mesh.ply", "pointcloud.ply", "textures/*",
                "depth/*"} \subseteq artifacts
       ELSE /\ pc_path = "pointcloud.ply"
            /\ "pointcloud.ply" \in artifacts
            /\ outcome.status = "success" =>
                 /\ outcome.pointcloud_path = "pointcloud.ply"
                 /\ outcome.ai_enhanced = FALSE
            /\ outcome.status = "error" => outcome.error = "RuntimeError"

\* fuse has returned a result for the pixel
Fused == fusion.stage = "fused" /\ fusion.out.returned

\* C13: calibration is insufficient exactly when fewer than 100 valid pixels
\* exist, on both paths: a relative AI map is calibrated with 100 or more and
\* is not calibrated with fewer.
C13_SameThreshold ==
  /\ (Fused /\ fusion.in.ai_is_relative) =>
       (fusion.out.calibrated <=> fusion.in.valid_count >= 100)
  /\ (fusion.stage = "metric" /\ fusion.out.returned
        /\ fusion.out.confidence # NO_LIDAR_CONFIDENCE
        /\ fusion.in.how = "lstsq") =>
       (fusion.out.calibrated <=> fusion.in.valid_count >= 100)

\* C14: when calibration is insufficient, fuse called as the pipeline calls it
\* uses the relative map as it is and derives the confidence of a pixel
\* without valid LiDAR from 0.3.
C14_InsufficientLowConfidence ==
  ( /\ Fused
    /\ fusion.in.ai_is_relative /\ fusion.in.valid_count < 100
    /\ fusion.in.ai_confidence = AI_CONFIDENCE_DEFAULT
    /\ ~ValidPixel(fusion.in.lidar, fusion.in.conf) ) =>
    /\ fusion.out.ai_metric = fusion.in.ai
    /\ fusion.out.confidence_map =
         (INSUFFICIENT_CONFIDENCE * AI_CONFIDENCE_FACTOR) \div MilliUnit

\* C15: every value of the confidence map fuse returns lies within [0, 1].
C15_ConfidenceInUnitRange ==
  Fused => (0 <= fusion.out.confidence_map /\ fusion.out.confidence_map <= MilliUnit)

\* ai_confidence * 0.7 was above 1 for a pixel without valid LiDAR, and another
\* call had a valid pixel whose penalty applied
C15_Witness ==
  /\ Fused
  /\ ~ValidPixel(fusion.in.lidar, fusion.in.conf)
  /\ fusion.in.ai_confidence * AI_CONFIDENCE_FACTOR > MilliUnit * MilliUnit
  /\ fusion.out.confidence_map = MilliUnit

\* C16: every value of the fused depth map lies within [min_depth, max_depth],
\* for valid and invalid pixels, calibrated or not.
C16_FusedDepthInRange ==
  Fused => (MIN_DEPTH <= fusion.out.fused_depth /\ fusion.out.fused_depth <= MAX_DEPTH)

\* a pixel without valid LiDAR whose calibrated AI depth is 2 x max_depth
C16_Witness ==
  /\ Fused /\ fusion.out.calibrated
  /\ ~ValidPixel(fusion.in.lidar, fusion.in.conf)
  /\ fusion.out.ai_metric = MAX_DEPTH * 2
  /\ fusion.out.fused_depth = MAX_DEPTH

\* extract has returned its three arrays
Extracted == extraction.stage = "extracted"

\* C17: the arrays extract returns have the same length N, for those that
\* are present, and N is at most max_points, on every path.
C17_EqualLengthsWithinMax ==
  Extracted =>
    LET o == extraction.out
        N == Len(o.points)
    IN /\ o.colors.present => Len(o.colors.data) = N
       /\ o.normals.present => Len(o.normals.data) = N
       /\ N <= extraction.in.max_points

\* the deduplication left more rows than max_points and a random draw cut
\* them, with colours and normals present
C17_Witness ==
  /\ Extracted
  /\ extraction.out.path = "sampled"
  /\ extraction.out.colors.present /\ extraction.out.normals.present
  /\ Len(extraction.out.points) = extraction.in.max_points
  /\ Len(extraction.out.points) < Len(DedupIndex(MaskedPoints(extraction.in.pixels),
                                                 extraction.in.voxel_size))

C19_CancelStopsNewFrames ==
  cancelAt >= 0 =>
    \A k \in 1..Len(frameLog) : frameLog[k].frame <= cancelAt

\* the file held every byte the anchor's reads asked for
CompleteAnchor(m) ==
  /\ m.nverts = m.declV
  /\ m.nnormals = m.declV
  /\ Len(m.faces) = m.declF
  /\ m.nclass \in {-1, m.declV}

\* C20: a mesh anchor with V vertices and F faces takes 16 + 64 + 4 + 4 + 1
\* bytes, 12 per vertex position, 12 per vertex normal, 12 per face, and one
\* per face when the anchor carries classifications, whatever the header flag.
C20_MeshAnchorBytes ==
  \A k \in 1..Len(mesh_anchors) :
    LET m == mesh_anchors[k] IN
    CompleteAnchor(m) =>
      m.stop - m.start =
        UUID_SIZE + TRANSFORM_SIZE + U32_SIZE + U32_SIZE + 1
        + VEC3_STRIDE * m.declV + VEC3_STRIDE * m.declV + VEC3_STRIDE * m.declF
        + (IF m.has_class # 0 THEN m.declF ELSE 0)

\* C21: a LiDAR-valid pixel gets 0.9 minus a penalty within [0, 0.5], so a
\* confidence within [0.4, 0.9]; a LiDAR-invalid pixel gets
\* clamp(ai_confidence x 0.7, 0, 1), whatever the depths at the pixel.
C21_ConfidenceByValidity ==
  Fused =>
    IF ValidPixel(fusion.in.lidar, fusion.in.conf)
    THEN /\ LIDAR_BASE_CONFIDENCE - PENALTY_MAX <= fusion.out.confidence_map
         /\ fusion.out.confidence_map <= LIDAR_BASE_CONFIDENCE
    ELSE fusion.out.confidence_map =
           Clip((fusion.in.ai_confidence * AI_CONFIDENCE_FACTOR) \div MilliUnit,
                0, MilliUnit)

\* a valid pixel whose LiDAR and AI depths disagree by less than a quarter
C21_Witness ==
  /\ Fused
  /\ ValidPixel(fusion.in.lidar, fusion.in.conf)
  /\ fusion.out.ai_metric # fusion.in.lidar
  /\ LIDAR_BASE_CONFIDENCE - PENALTY_MAX < fusion.out.confidence_map
  /\ fusion.out.confidence_map < LIDAR_BASE_CONFIDENCE

\* the pixel column a returned point was back-projected from
PixelOf(p) ==
  CHOOSE u \in 0..(Len(extraction.in.pixels) - 1) :
    /\ extraction.in.pixels[u + 1].conf >= MIN_CONFIDENCE
    /\ BackProject(u, extraction.in.pixels[u + 1].depth) = p

\* the voxels a cloud occupies at the extractor's voxel size
OccupiedVoxels(points) ==
  {VoxelIndex(points[k], extraction.in.voxel_size) : k \in 1..Len(points)}

C23_EnhancedCloudBounded ==
  enhanced # None => enhanced.total_points <= MaxPoints

\* what holds of the service and its caller in every state
C24_State ==
  /\ \A s \in 1..Len(services) :
       services[s].is_loaded => (services[s].model /\ services[s].processor)
  /\ \A t \in Threads :
       /\ thr[t].pc = "infer" => services[thr[t].svc].is_loaded
       /\ (thr[t].op = "predict" /\ thr[t].ret = "depth")
            => services[thr[t].svc].is_loaded
       /\ (thr[t].op = "predict" /\ thr[t].cause = "unavailable")
            => thr[t].ret = "None"
       /\ (thr[t].op = "unload_model" /\ thr[t].pc = "done") =>
            /\ ~services[thr[t].svc].is_loaded
            /\ ~services[thr[t].svc].model
            /\ ~services[thr[t].svc].processor

\* what holds of every call as it starts
C24_Step ==
  \A t \in Threads :
    /\ (LoadEnter(t) /\ thr[t].pc = "have_svc" /\ services[thr[t].svc].is_loaded)
         => (services' = services /\ thr'[t].ret = "True")
    /\ (PredictEnter(t) /\ ~services[thr[t].svc].is_loaded)
         => thr'[t].pc = "load_enter"

\* C24: over any sequence of load_model, predict and unload_model calls,
\* is_loaded implies model and processor are present; predict on a service
\* that is not loaded loads first and returns None if that fails; load_model
\* on a loaded service changes nothing and returns True; unload_model leaves
\* the service not loaded with model and processor released.
C24_ServiceLifecycle == []C24_State /\ [][C24_Step]_vars

\* a service loaded, unloaded, and loaded again by a later predict
C24_Witness ==
  \E t \in Threads :
    /\ thr[t].op = "predict" /\ thr[t].ret = "depth"
    /\ services[thr[t].svc].inits = 2
    /\ services[thr[t].svc].is_loaded

\* C25: the progress fractions delivered during one processing run are
\* non-decreasing and all lie in [0, 1].
C25_ProgressMonotone ==
  \A k \in 1..Len(progress.log) :
    /\ 0 <= progress.log[k] /\ progress.log[k] <= MilliUnit
    /\ k > 1 => progress.log[k - 1] <= progress.log[k]

\* C26: debug_lraw and parse_lraw agree on the layout: the first mesh anchor,
\* which both start at the end of the header, ends at the same offset for
\* both, and the image payload of a texture frame starts at the same distance
\* from the start of its record.
C26_DecodersAgree ==
  /\ (Len(mesh_anchors) >= 1 /\ CompleteAnchor(mesh_anchors[1])) =>
       mesh_anchors[1].stop =
         mesh_anchors[1].start
         + DebugMeshLen(mesh_anchors[1].declV, mesh_anchors[1].declF,
                        mesh_anchors[1].has_class)
  /\ Len(texture_frames) >= 1 =>
       texture_frames[1].start + TEXTURE_FIXED
         = texture_frames[1].start + DEBUG_TEXTURE_FIXED

\* C27: RawDataProcessor.process completes for every capture that decodes,
\* also with zero mesh anchors or zero texture or depth frames (no progress
\* callback failing).
C27_RawCompletesOnDecoded ==
  (caller = "raw" /\ pc = "done" /\ parseStatus = "ok" /\ ~notifyFailed)
    => outcome.kind = "returned"

\* C28: when broadcast has returned, every connection that stayed registered
\* for the scan throughout has been sent the message, every connection whose
\* send failed is no longer registered, and no scan id maps to an empty list
C28_BroadcastDelivers ==
  /\ \A s \in DOMAIN connections : connections[s] # <<>>
  /\ bcast.state = "done" =>
       /\ bcast.stayed \subseteq bcast.delivered
       /\ \A w \in SeqRange(bcast.disconnected) :
            ~(bcast.scan \in DOMAIN connections
              /\ InList(connections[bcast.scan], w))

\* C28, the parts about removal alone
C28_FailedRemovedNoEmptyList ==
  /\ \A s \in DOMAIN connections : connections[s] # <<>>
  /\ bcast.state = "done" =>
       \A w \in SeqRange(bcast.disconnected) :
            ~(bcast.scan \in DOMAIN connections
              /\ InList(connections[bcast.scan], w))

\* C29 (storage): a chunk request to the endpoint of a scan changes only
\* sessions that belong to that scan
C29_ChunkStep ==
  reply'.status = "chunk_received" =>
    \A k \in 1..Len(upload_sessions) :
      upload_sessions'[k] # upload_sessions[k] =>
        upload_sessions[k].scan_id = reply'.scan

\* C29 (counting): a session counts every index it received once
C29_CountedOnce ==
  \A k \in 1..Len(upload_sessions) :
    /\ Cardinality(SeqRange(upload_sessions[k].uploaded_chunks))
         = Len(upload_sessions[k].uploaded_chunks)
    /\ SeqRange(upload_sessions[k].uploaded_chunks)
         = DOMAIN upload_sessions[k].chunks_data

\* C29 (finalize, cancel): a finalize that succeeds found every index
\* 0..total_chunks-1 received, writes the chunks last stored under those
\* indexes in increasing order, and removes the session; a cancel that finds a
\* session removes it
C29_FinalizeStep ==
  LET k == SessionByScan(upload_sessions, reply'.scan)
      ids == {upload_sessions'[j].upload_id : j \in 1..Len(upload_sessions')}
  IN (/\ reply'.status \in {"finalized", "cancelled"}
      /\ Len(upload_sessions') < Len(upload_sessions)) =>
       /\ k # 0
       /\ upload_sessions[k].upload_id \notin ids
       /\ reply'.status = "finalized" =>
            /\ SeqRange(upload_sessions[k].uploaded_chunks)
                 = 0..(upload_sessions[k].total_chunks - 1)
            /\ Len(scan_files'[reply'.scan]) = upload_sessions[k].total_chunks
            /\ \A i \in 1..upload_sessions[k].total_chunks :
                 scan_files'[reply'.scan][i] = upload_sessions[k].chunks_data[i - 1]

\* C29: the chunked upload sessions store, count, assemble and remove as stated
C29_UploadSessions ==
  /\ []C29_CountedOnce
  /\ [][C29_ChunkStep /\ C29_FinalizeStep]_vars

\* C29 without the storing of chunks under the scan of the endpoint
C29_CountAssembleRemove ==
  /\ []C29_CountedOnce
  /\ [][C29_FinalizeStep]_vars

\* C30 (check): no two start_processing requests for one scan have both
\* passed the status check
C30_OnePassesCheck ==
  \A r1 \in Requests, r2 \in Requests :
    (r1 # r2 /\ handlers[r1].pc = "saving" /\ handlers[r2].pc = "saving")
      => handlers[r1].scan # handlers[r2].scan

\* C30 (transition): a scan becomes 'processing' only from 'uploaded' or
\* 'failed', and a task is scheduled exactly in the steps where a scan becomes
\* 'processing'
C30_TransitionStep ==
  /\ \A s \in DOMAIN scans :
       (scans'[s] = "processing" /\ scans[s] # "processing")
         => (scans[s] \in {"uploaded", "failed"} /\ Len(tasks') = Len(tasks) + 1)
  /\ Len(tasks') # Len(tasks) =>
       /\ Len(tasks') = Len(tasks) + 1
       /\ scans[tasks'[Len(tasks')].scan] \in {"uploaded", "failed"}
       /\ scans'[tasks'[Len(tasks')].scan] = "processing"

\* C30 (end): a task that has ended wrote 'completed' or 'failed' as the
\* status of its scan
C30_TaskEndStep ==
  \A t \in 1..Len(tasks) :
    (tasks[t].pc # "done" /\ tasks'[t].pc = "done")
      => /\ tasks'[t].status \in {"completed", "failed"}
         /\ scans'[tasks[t].scan] = tasks'[t].status

\* C30: start_processing and process_scan_task move the status as stated
C30_ProcessingOnce ==
  /\ []C30_OnePassesCheck
  /\ [][C30_TransitionStep /\ C30_TaskEndStep]_vars

\* C30, the end of the tasks alone
C30_TasksEnd == [][C30_TaskEndStep]_vars

=============================================================================
